---- MODULE Spec2Model ----
(***************************************************************************)
(* AnonTokyo event interpreter: the two-pass compiler (flow analysis, node *)
(* generation with fused "JIT" steps) and the stepping engine, modelled    *)
(* from src/src/compile.ts and src/src/interpreter.ts.                     *)
(***************************************************************************)
EXTENDS Integers, Sequences, FiniteSets, TLC

(***************************************************************************)
(* Bounds of the model.                                                    *)
(***************************************************************************)
\* largest N of the counting-loop programs
MaxN == 3
\* iterations a fused loop may run inside one step before the step is
\* reported as not returning
MaxIter == 12
\* steps one top-level invocation may take before the model stops it
MaxSteps == 40
MaxExecs == 2

(***************************************************************************)
(* Run-time values.  Every value has the same shape so that any two can be *)
(* compared: t is the JavaScript type, n the payload.                      *)
(***************************************************************************)
Undef == [t |-> "undef", n |-> 0]
Num(n) == [t |-> "num", n |-> n]
Bool(b) == [t |-> "bool", n |-> IF b THEN 1 ELSE 0]
EXIT_SIGNAL == [t |-> "symbol", n |-> 0]
Null == [t |-> "null", n |-> 0]
\* the n-th string constant of the programs: a word such as hello, which
\* read as JavaScript text is an identifier that nothing declares
Str(n) == [t |-> "str", n |-> n]

\* JavaScript truthiness of a value (if (...), &&)
Truthy(v) == CASE v.t = "bool" -> v.n = 1
               [] v.t = "num" -> v.n # 0
               [] OTHER -> FALSE

\* JavaScript ===
StrictEq(a, b) == a.t = b.t /\ a.n = b.n

(***************************************************************************)
(* Host expressions.  The interpreter treats them as opaque callables over *)
(* a scope {args, local, env}; the programs of this model use the shapes   *)
(* below.  Every evaluation is recorded in the trace under the             *)
(* expression's tag.                                                       *)
(***************************************************************************)
Vars == {"i", "j", "k"}

NoExpr == [k |-> "none", v |-> "", w |-> "", n |-> 0, tag |-> ""]
ESet(v, n, tag) == [k |-> "set", v |-> v, w |-> "", n |-> n, tag |-> tag]
EInc(v, tag) == [k |-> "inc", v |-> v, w |-> "", n |-> 0, tag |-> tag]
EAdd(v, n, tag) == [k |-> "add", v |-> v, w |-> "", n |-> n, tag |-> tag]
ELt(v, n, tag) == [k |-> "lt", v |-> v, w |-> "", n |-> n, tag |-> tag]
EEq(v, n, tag) == [k |-> "eq", v |-> v, w |-> "", n |-> n, tag |-> tag]
EGet(v, tag) == [k |-> "get", v |-> v, w |-> "", n |-> 0, tag |-> tag]
EConst(n, tag) == [k |-> "const", v |-> "", w |-> "", n |-> n, tag |-> tag]
EBool(b, tag) == [k |-> "bool", v |-> "", w |-> "", n |-> IF b THEN 1 ELSE 0, tag |-> tag]
\* ({ args }) => args.v, args.v > 0, args.v - 1
EArg(v, tag) == [k |-> "arg", v |-> v, w |-> "", n |-> 0, tag |-> tag]
EArgPos(v, tag) == [k |-> "argpos", v |-> v, w |-> "", n |-> 0, tag |-> tag]
EArgDec(v, tag) == [k |-> "argdec", v |-> v, w |-> "", n |-> 0, tag |-> tag]
\* () => { throw new Error() }
EThrow(tag) == [k |-> "throw", v |-> "", w |-> "", n |-> 0, tag |-> tag]

isFunction(e) == e.k # "none"

EmptyLocal == [x \in Vars |-> Undef]

\* the number held by a value (the programs of the model initialise a
\* variable before they compute with it)
NumOf(v) == IF v.t = "num" THEN v.n ELSE 0

\* args.v: undefined when the key is absent
ArgOf(args, v) == IF v \in DOMAIN args THEN args[v] ELSE Undef

\* The machine state an expression reads and writes: the frame's local and
\* args, and the trace of evaluations (shared by every frame, like env).
\* err is the exception thrown so far in the step ("" if none): once it is
\* set nothing more is evaluated.
EvalValue(e, m) ==
    CASE e.k = "set" -> Num(e.n)
      [] e.k = "inc" -> Num(NumOf(m.local[e.v]))
      [] e.k = "add" -> Num(NumOf(m.local[e.v]) + e.n)
      [] e.k = "lt" -> Bool(NumOf(m.local[e.v]) < e.n)
      [] e.k = "eq" -> Bool(StrictEq(m.local[e.v], Num(e.n)))
      [] e.k = "get" -> m.local[e.v]
      [] e.k = "const" -> Num(e.n)
      [] e.k = "bool" -> Bool(e.n = 1)
      [] e.k = "arg" -> ArgOf(m.args, e.v)
      [] e.k = "argpos" -> Bool(NumOf(ArgOf(m.args, e.v)) > 0)
      [] e.k = "argdec" -> Num(NumOf(ArgOf(m.args, e.v)) - 1)
      [] OTHER -> Undef

EvalLocal(e, m) ==
    CASE e.k = "set" -> [m.local EXCEPT ![e.v] = Num(e.n)]
      [] e.k = "inc" -> [m.local EXCEPT ![e.v] = Num(NumOf(m.local[e.v]) + 1)]
      [] e.k = "add" -> [m.local EXCEPT ![e.v] = Num(NumOf(m.local[e.v]) + e.n)]
      [] OTHER -> m.local

\* expression(scope): the result and the state after the call
Eval(e, m) ==
    IF m.err # "" THEN [val |-> Undef, m |-> m]
    ELSE [val |-> EvalValue(e, m),
          m |-> [m EXCEPT !.local = EvalLocal(e, m),
                          !.trace = Append(m.trace, [tag |-> e.tag, val |-> EvalValue(e, m),
                                                     ev |-> "expr", params |-> <<>>]),
                          !.err = IF e.k = "throw" THEN "Error" ELSE ""]]

(***************************************************************************)
(* Statements (src/src/type.ts).  An absent optional field is NoExpr, the  *)
(* empty label "" or has... = FALSE.                                       *)
(***************************************************************************)
\* a Value of a parameter map or of a Return: a literal or an expression
\* emitted says that the value is read from the text of a fused step
Lit(v) == [isFn |-> FALSE, e |-> NoExpr, val |-> v, emitted |-> FALSE]
Fn(e) == [isFn |-> TRUE, e |-> e, val |-> Undef, emitted |-> FALSE]
Param(key, value) == [key |-> key, value |-> value]

SExpr(e) == [type |-> "Expression", expression |-> e]
SCall(name, parameters, builtIn) ==
    [type |-> "Call", functionName |-> name, parameters |-> parameters, builtIn |-> builtIn]
SReturn(value) == [type |-> "Return", hasValue |-> TRUE, value |-> value]
SReturnOne == [type |-> "Return", hasValue |-> TRUE, value |-> Lit([t |-> "num", n |-> 1])]
SReturnNone == [type |-> "Return", hasValue |-> FALSE, value |-> Lit(Undef)]
Branch(condition, body) == [condition |-> condition, body |-> body]
SIf(branches) ==
    [type |-> "If", branches |-> branches, hasOtherwise |-> FALSE, otherwise |-> <<>>]
SIfElse(branches, otherwise) ==
    [type |-> "If", branches |-> branches, hasOtherwise |-> TRUE, otherwise |-> otherwise]
SSwitch(pattern, branches) ==
    [type |-> "Switch", pattern |-> pattern, branches |-> branches,
     hasOtherwise |-> FALSE, otherwise |-> <<>>]
SSwitchElse(pattern, branches, otherwise) ==
    [type |-> "Switch", pattern |-> pattern, branches |-> branches,
     hasOtherwise |-> TRUE, otherwise |-> otherwise]
SLoop(initializer, condition, iterator, skipInitialCheck, label, body) ==
    [type |-> "Loop", initializer |-> initializer, condition |-> condition,
     iterator |-> iterator, skipInitialCheck |-> skipInitialCheck,
     label |-> label, body |-> body]
SBreak(label) == [type |-> "Break", label |-> label]
SContinue == [type |-> "Continue"]
SExit == [type |-> "Exit"]

(***************************************************************************)
(* Flow analysis (compile.ts, flowAnalyzePass).  The flow graph is a       *)
(* pointer graph with back edges; it is kept here as an arena: a sequence  *)
(* of nodes that refer to each other by their position.  0 is "no node".   *)
(* A pass carries err, the message of the exception that ended it ("" if  *)
(* none); once err is set every later operation leaves the state alone.    *)
(***************************************************************************)
NoStatement == [type |-> "none"]

BaseNode ==
    [id |-> -1, type |-> "", statement |-> NoStatement, next |-> 0, mergable |-> TRUE,
     nodes |-> <<>>, branches |-> <<>>, hasOtherwise |-> FALSE, otherwise |-> 0,
     main |-> 0, body |-> 0]

\* a new object: appended to the arena, named by its position
Alloc(fa, node) ==
    [fa |-> [fa EXCEPT !.arena = Append(@, node)], node |-> Len(fa.arena) + 1]

Failed(fa) == [fa |-> fa, node |-> 0]

Throw(fa, msg) == [fa |-> [fa EXCEPT !.err = msg], node |-> 0]

StackTopOrFirst(stack) == IF stack = <<>> THEN 1 ELSE stack[Len(stack)]

\* breakableNodeStack.at(-1): 0 when the stack is empty
StackTop(stack) == IF stack = <<>> THEN 0 ELSE stack[Len(stack)]

\* labelMap.get(label): 0 when absent
LabelGet(labelMap, label) ==
    IF \E x \in labelMap : x.label = label
    THEN (CHOOSE x \in labelMap : x.label = label).node
    ELSE 0

RECURSIVE toFlowNode(_, _, _)
RECURSIVE toBlockFlowNode(_, _, _)
RECURSIVE LowerStatements(_, _, _)
RECURSIVE LowerIfBranches(_, _, _)
RECURSIVE LowerSwitchBranches(_, _, _, _)

\* the node of one statement put in front of the nodes lowered after it
ConsNode(r, nodes) == [fa |-> r.fa, nodes |-> <<r.node>> \o nodes]

\* the running successor `last`: the node lowered just before, or the
\* block's successor for the last statement
LowerHead(statement, rest, successor) ==
    IF rest.fa.err # "" THEN rest
    ELSE ConsNode(toFlowNode(rest.fa, statement,
                             IF rest.nodes = <<>> THEN successor ELSE rest.nodes[1]),
                  rest.nodes)

\* statements.toReversed().map(s => last = toFlowNode(s, last)).toReversed():
\* the last statement is lowered first, each node's successor is the node of
\* the statement after it
LowerStatements(fa, statements, successor) ==
    IF statements = <<>> THEN [fa |-> fa, nodes |-> <<>>]
    ELSE LowerHead(Head(statements), LowerStatements(fa, Tail(statements), successor),
                   successor)

BlockOf(low, successor) ==
    IF low.fa.err # "" THEN Failed(low.fa)
    ELSE Alloc(low.fa,
               [BaseNode EXCEPT !.type = "Block", !.nodes = low.nodes,
                                !.next = successor,
                                !.mergable = \A i \in 1..Len(low.nodes) :
                                                low.fa.arena[low.nodes[i]].mergable])

toBlockFlowNode(fa, statements, successor) ==
    BlockOf(LowerStatements(fa, statements, successor), successor)

ConsBranch(condition, node, rest) ==
    [fa |-> rest.fa, branches |-> <<[condition |-> condition, node |-> node]>> \o rest.branches]

IfBranchRest(branches, b, successor) ==
    ConsBranch(Head(branches).condition, b.node,
               LowerIfBranches(b.fa, Tail(branches), successor))

\* statement.branches.map(({condition, body}) => ...) of an If
LowerIfBranches(fa, branches, successor) ==
    IF branches = <<>> \/ fa.err # "" THEN [fa |-> fa, branches |-> <<>>]
    ELSE IfBranchRest(branches, toBlockFlowNode(fa, Head(branches).body, successor),
                      successor)

\* the successor the branch's node is given: `last`, which the line before
\* has just set to a first lowering of the same body
SwitchBranchSuccessor(first, outer) == first

SwitchBranchNode(branch, b1, b2, rest) ==
    [fa |-> b2.fa,
     branches |-> <<[condition |-> branch.condition, node |-> b2.node]>> \o rest.branches,
     last |-> b1.node]

SwitchBranchSecond(branch, b1, rest, successor) ==
    IF b1.fa.err # "" THEN [fa |-> b1.fa, branches |-> <<>>, last |-> 0]
    ELSE SwitchBranchNode(branch, b1,
             toBlockFlowNode(b1.fa, branch.body, SwitchBranchSuccessor(b1.node, successor)),
             rest)

SwitchBranchFirst(branch, rest, successor) ==
    IF rest.fa.err # "" THEN rest
    ELSE SwitchBranchSecond(branch, toBlockFlowNode(rest.fa, branch.body, rest.last),
                            rest, successor)

\* statement.branches.toReversed().map(...).toReversed() of a Switch: the
\* body is lowered twice, the first block becoming `last`, the successor of
\* the second, which is the branch's node
LowerSwitchBranches(fa, branches, last0, successor) ==
    IF branches = <<>> \/ fa.err # "" THEN [fa |-> fa, branches |-> <<>>, last |-> last0]
    ELSE SwitchBranchFirst(Head(branches),
                           LowerSwitchBranches(fa, Tail(branches), last0, successor),
                           successor)

BranchesMergable(arena, branches) ==
    \A i \in 1..Len(branches) : arena[branches[i].node].mergable

\* the node a Jump refers to: the labelled loop, or the innermost open loop
JumpTarget(fa, statement) ==
    IF statement.type = "Break" /\ statement.label # ""
    THEN LabelGet(fa.labelMap, statement.label)
    ELSE StackTop(fa.stack)

\* what a Jump node's next is set to, given the loop `to` it resolved
JumpNext(to) == to

JumpNode(fa, statement, to) ==
    IF to = 0
    THEN Throw(fa, IF statement.type = "Continue" THEN "unexcepted continue"
                   ELSE IF statement.label # "" THEN "undef label"
                   ELSE "unexcepted break")
    ELSE Alloc(fa, [BaseNode EXCEPT !.type = "Jump", !.statement = statement,
                                    !.next = JumpNext(to), !.mergable = TRUE])

\* the If or Switch node, its branch blocks and otherwise block lowered
BranchingNode(type, statement, fa, branches, otherwise, successor) ==
    IF fa.err # "" THEN Failed(fa)
    ELSE Alloc(fa, [BaseNode EXCEPT !.type = type, !.statement = statement,
                       !.branches = branches,
                       !.hasOtherwise = statement.hasOtherwise,
                       !.otherwise = otherwise,
                       !.mergable = BranchesMergable(fa.arena, branches)
                           /\ (statement.hasOtherwise => fa.arena[otherwise].mergable),
                       !.next = successor])

IfOtherwise(statement, bs, ow, successor) ==
    BranchingNode("If", statement, ow.fa, bs.branches, ow.node, successor)

IfNode(statement, bs, successor) ==
    IF bs.fa.err # "" THEN Failed(bs.fa)
    ELSE IfOtherwise(statement, bs,
             IF statement.hasOtherwise
             THEN toBlockFlowNode(bs.fa, statement.otherwise, successor)
             ELSE [fa |-> bs.fa, node |-> 0],
             successor)

SwitchBranches(statement, ow, bs, successor) ==
    BranchingNode("Switch", statement, bs.fa, bs.branches, ow.node, successor)

SwitchNode(statement, ow, successor) ==
    IF ow.fa.err # "" THEN Failed(ow.fa)
    ELSE SwitchBranches(statement, ow,
             LowerSwitchBranches(ow.fa, statement.branches,
                 IF statement.hasOtherwise THEN ow.node ELSE successor, successor),
             successor)

\* the node that stands for a Loop statement in its block
LoopEntry(statement, initializerNode, loopNode, body) ==
    IF isFunction(statement.initializer) THEN initializerNode
    ELSE IF statement.skipInitialCheck THEN body
    ELSE loopNode

\* the initializer's wrapper, when the statement has an initializer
LoopWrap(statement, fa, loopNode, body) ==
    IF isFunction(statement.initializer)
    THEN [fa |-> [fa EXCEPT !.arena = Append(@, [BaseNode EXCEPT
                         !.type = "LoopInitializer", !.main = loopNode, !.mergable = TRUE])],
          node |-> LoopEntry(statement, Len(fa.arena) + 1, loopNode, body)]
    ELSE [fa |-> fa, node |-> LoopEntry(statement, 0, loopNode, body)]

\* the body lowered: it becomes the loop's body, the loop takes its
\* mergable, the label and the loop are closed
LoopClose(statement, loopNode, bd) ==
    IF bd.fa.err # "" THEN Failed(bd.fa)
    ELSE LoopWrap(statement,
             [bd.fa EXCEPT
                 !.arena[loopNode].body = bd.node,
                 !.arena[loopNode].mergable = bd.fa.arena[bd.node].mergable,
                 !.labelMap = IF statement.label # ""
                              THEN {x \in @ : x.label # statement.label}
                              ELSE @,
                 !.stack = SubSeq(@, 1, Len(@) - 1)],
             loopNode, bd.node)

LoopOpenUnchecked(statement, lp) ==
    LoopClose(statement, lp.node,
        toBlockFlowNode(
            [lp.fa EXCEPT
                !.labelMap = IF statement.label # ""
                             THEN @ \cup {[label |-> statement.label, node |-> lp.node]}
                             ELSE @,
                !.stack = Append(@, lp.node)],
            statement.body, lp.node))

\* the loop node created: its label registered, the loop opened, the body
\* lowered with the loop node as its successor
LoopOpen(statement, lp) ==
    IF statement.label # "" /\ \E x \in lp.fa.labelMap : x.label = statement.label
    THEN Throw(lp.fa, "duplicate label")
    ELSE LoopClose(statement, lp.node,
             toBlockFlowNode(
                 [lp.fa EXCEPT
                     !.labelMap = IF statement.label # ""
                                  THEN @ \cup {[label |-> statement.label, node |-> lp.node]}
                                  ELSE @,
                     !.stack = Append(@, lp.node)],
                 statement.body, lp.node))

\* the loop node with its placeholder body
LoopNode(statement, ph, successor) ==
    LoopOpen(statement,
             Alloc(ph.fa, [BaseNode EXCEPT !.type = "Loop", !.statement = statement,
                              !.body = ph.node, !.next = successor, !.mergable = FALSE]))

toFlowNode(fa, statement, successor) ==
    IF fa.err # "" THEN Failed(fa)
    ELSE CASE statement.type = "Expression" ->
                Alloc(fa, [BaseNode EXCEPT !.type = "Normal", !.statement = statement,
                                           !.next = successor, !.mergable = TRUE])
           [] statement.type = "Call" ->
                IF statement.builtIn
                THEN Alloc(fa, [BaseNode EXCEPT !.type = "Normal", !.statement = statement,
                                                !.next = successor, !.mergable = TRUE])
                ELSE Alloc(fa, [BaseNode EXCEPT !.type = "ExternCall", !.statement = statement,
                                                !.next = successor, !.mergable = FALSE])
           [] statement.type = "Return" ->
                Alloc(fa, [BaseNode EXCEPT !.type = "Return", !.statement = statement,
                                           !.mergable = TRUE])
           [] statement.type = "If" ->
                IfNode(statement, LowerIfBranches(fa, statement.branches, successor),
                       successor)
           [] statement.type = "Switch" ->
                SwitchNode(statement,
                           IF statement.hasOtherwise
                           THEN toBlockFlowNode(fa, statement.otherwise, successor)
                           ELSE [fa |-> fa, node |-> 0],
                           successor)
           [] statement.type = "Loop" ->
                LoopNode(statement, toBlockFlowNode(fa, <<>>, successor), successor)
           [] statement.type \in {"Break", "Continue"} ->
                JumpNode(fa, statement, JumpTarget(fa, statement))
           [] statement.type = "Exit" ->
                Alloc(fa, [BaseNode EXCEPT !.type = "Exit", !.statement = statement,
                                           !.mergable = TRUE])
           [] OTHER -> Throw(fa, "unknown statement type")

(***************************************************************************)
(* The labelling walk: addNode gives a node the next free ID.              *)
(***************************************************************************)
RECURSIVE labelingFlowNode(_, _)
RECURSIVE LabelEach(_, _)

addFlowNode(la, n) == [la EXCEPT !.arena[n].id = la.count, !.count = @ + 1]

LabelEach(la, ns) ==
    IF ns = <<>> THEN la ELSE LabelEach(labelingFlowNode(la, Head(ns)), Tail(ns))

LabelOtherwise(la, node) ==
    IF node.hasOtherwise THEN labelingFlowNode(la, node.otherwise) ELSE la

\* node.id = node.nodes[0].id: a TypeError when the block is empty
BlockId(la, n, nodes) ==
    IF la.err # "" THEN la
    ELSE IF nodes = <<>> THEN [la EXCEPT !.err = "TypeError"]
    ELSE [la EXCEPT !.arena[n].id = la.arena[nodes[1]].id]

labelingFlowNode(la, n) ==
    IF la.err # "" THEN la
    ELSE CASE la.arena[n].type \in {"Normal", "Return", "Jump", "Exit", "ExternCall"} ->
                addFlowNode(la, n)
           [] la.arena[n].type \in {"If", "Switch"} ->
                LabelOtherwise(
                    LabelEach(addFlowNode(la, n),
                              [i \in 1..Len(la.arena[n].branches) |->
                                  la.arena[n].branches[i].node]),
                    la.arena[n])
           [] la.arena[n].type = "LoopInitializer" ->
                labelingFlowNode(addFlowNode(la, n), la.arena[n].main)
           [] la.arena[n].type = "Loop" ->
                labelingFlowNode(addFlowNode(la, n), la.arena[n].body)
           [] la.arena[n].type = "Block" ->
                BlockId(LabelEach(la, la.arena[n].nodes), n, la.arena[n].nodes)
           [] OTHER -> la

\* root.nodes.push(implicitReturnNode); labelingFlowNode(root)
LabelRoot(root, implicitReturnNode) ==
    IF root.fa.err # "" THEN [arena |-> <<>>, root |-> 0, err |-> root.fa.err]
    ELSE LET la == labelingFlowNode(
                       [arena |-> [root.fa.arena EXCEPT
                                      ![root.node].nodes = Append(@, implicitReturnNode)],
                        count |-> 0, err |-> ""],
                       root.node)
         IN [arena |-> la.arena, root |-> root.node, err |-> la.err]

\* flowAnalyzePass(program): the labelled graph and its root block, or err.
\* The implicit Return is the first node created: position 1.
flowAnalyzePass(program) ==
    LabelRoot(toBlockFlowNode(
                  [arena |-> <<[BaseNode EXCEPT !.type = "Return",
                                                !.statement = SReturnNone,
                                                !.mergable = TRUE]>>,
                   labelMap |-> {}, stack |-> <<>>, err |-> ""],
                  program, 1),
              1)

(***************************************************************************)
(* Node generation (compile.ts, nodeGenPass).  A step of the program is    *)
(* either the standalone step of one flow node, or a fused step: the       *)
(* JavaScript function that emitJITNode builds from the text emitJITCode   *)
(* emits.  The emitted text is kept as a syntax tree; JSSyntaxError says   *)
(* when the text is rejected by `new AsyncFunction`, and JSRun gives the   *)
(* text its JavaScript meaning.                                            *)
(***************************************************************************)
\* utils.ts splitArray(array, predictor) with predictor = !node.mergable:
\* every non-mergeable node is a chunk of its own
RECURSIVE splitArray(_, _, _)
splitArray(arena, array, chunks) ==
    IF array = <<>> THEN chunks
    ELSE IF ~arena[Head(array)].mergable
         THEN splitArray(arena, Tail(array), chunks \o << <<Head(array)>>, <<>> >>)
         ELSE splitArray(arena, Tail(array),
                  [chunks EXCEPT ![Len(chunks)] = Append(@, Head(array))])

\* whether emitNode(Block) hands a chunk to emitJITNode (else to emitNode)
ChunkIsJIT(arena, chunk) ==
    ~(Len(chunk) = 1
      /\ (arena[chunk[1]].type \notin {"If", "Switch", "Loop"} \/ ~arena[chunk[1]].mergable))

\* the ID of a node reference; node.next of a Return or Exit does not exist
IdOf(arena, n) == IF n = 0 THEN -1 ELSE arena[n].id

\* the Jump case of emitJITCode: a jump leaves the fused step when its
\* target's ID is below the entry's
JumpLeavesJIT(targetId, entryId) == targetId < entryId

\* `${isFunction(v) ? emitJITExpression(v) : v}`: the callable's body in
\* parentheses, or the literal turned into text by the template
EmitValue(value) == [value EXCEPT !.emitted = TRUE]

BuiltInAssumed(name, builtIns) == TRUE

\* getBuiltInFunction(name) finds the built-in (it throws otherwise)
BuiltInKnown(name, builtIns) == name \in builtIns

RECURSIVE emitJITCode(_, _, _, _)
emitJITCode(arena, entryId, n, builtIns) ==
    LET node == arena[n]
        statement == node.statement
        sub(k) == emitJITCode(arena, entryId, k, builtIns)
    IN CASE node.type = "Normal" ->
              IF statement.type = "Expression"
              THEN [js |-> "expr", e |-> statement.expression]
              ELSE IF ~statement.builtIn THEN [js |-> "throw", msg |-> "unexcept node"]
              ELSE IF ~BuiltInKnown(statement.functionName, builtIns)
                   THEN [js |-> "throw", msg |-> "missing built-in function"]
              ELSE [js |-> "builtin", name |-> statement.functionName,
                    parameters |-> [i \in 1..Len(statement.parameters) |->
                                       [key |-> statement.parameters[i].key,
                                        value |-> EmitValue(statement.parameters[i].value)]]]
         [] node.type = "ExternCall" ->
              [js |-> "throw", msg |-> "unexcept jit node, extern call can't emit jit"]
         [] node.type = "Return" ->
              [js |-> "return", type |-> "Return", value |-> EmitValue(statement.value),
               next |-> 0]
         [] node.type = "If" ->
              [js |-> "if",
               branches |-> [i \in 1..Len(node.branches) |->
                               [condition |-> node.branches[i].condition,
                                code |-> sub(node.branches[i].node)]],
               hasOtherwise |-> node.hasOtherwise,
               otherwise |-> IF node.hasOtherwise THEN sub(node.otherwise)
                             ELSE [js |-> "block", stmts |-> <<>>]]
         [] node.type = "Switch" ->
              [js |-> "switch", pattern |-> statement.pattern,
               branches |-> [i \in 1..Len(node.branches) |->
                               [condition |-> node.branches[i].condition,
                                code |-> sub(node.branches[i].node)]],
               hasOtherwise |-> node.hasOtherwise,
               otherwise |-> IF node.hasOtherwise THEN sub(node.otherwise)
                             ELSE [js |-> "block", stmts |-> <<>>]]
         [] node.type = "LoopInitializer" -> sub(node.main)
         [] node.type = "Loop" ->
              [js |-> IF statement.skipInitialCheck THEN "dowhile" ELSE "for",
               initializer |-> statement.initializer,
               condition |-> statement.condition,
               iterator |-> statement.iterator,
               body |-> sub(node.body)]
         [] node.type = "Jump" ->
              IF JumpLeavesJIT(IdOf(arena, node.next), entryId)
              THEN [js |-> "return", type |-> "Move", value |-> Lit(Undef),
                    next |-> IdOf(arena, node.next)]
              ELSE IF statement.type = "Break"
                   THEN [js |-> "break", label |-> statement.label]
                   ELSE [js |-> "continue"]
         [] node.type = "Block" ->
              [js |-> "block", stmts |-> [i \in 1..Len(node.nodes) |-> sub(node.nodes[i])]]
         [] node.type = "Exit" ->
              [js |-> "return", type |-> "Exit", value |-> Lit(Undef), next |-> 0]
         [] OTHER -> [js |-> "throw", msg |-> "unknown statement type"]

\* the exception emitJITCode throws while emitting this text ("" if none)
RECURSIVE EmitThrows(_)
RECURSIVE EmitThrowsSeq(_)
EmitThrowsSeq(codes) ==
    IF codes = <<>> THEN ""
    ELSE IF EmitThrows(Head(codes)) # "" THEN EmitThrows(Head(codes))
    ELSE EmitThrowsSeq(Tail(codes))

EmitThrows(code) ==
    CASE code.js = "throw" -> code.msg
      [] code.js \in {"if", "switch"} ->
           LET b == EmitThrowsSeq([i \in 1..Len(code.branches) |-> code.branches[i].code])
           IN IF b # "" THEN b ELSE EmitThrows(code.otherwise)
      [] code.js \in {"for", "dowhile"} -> EmitThrows(code.body)
      [] code.js = "block" -> EmitThrowsSeq(code.stmts)
      [] OTHER -> ""

\* Whether the emitted text is not a JavaScript function body.
\*  - If: the branches are joined by "else" with no blank, so two branches
\*    read `if (a){..}elseif (b){..}`: a call of elseif followed by `{`;
\*    an If with no branch and an otherwise reads `else {..}`.
\*  - do-while: an absent condition reads `while ()`.
\*  - `break L;` names a label; no loop is emitted with its label.
\*  - `break;` outside any loop or switch, `continue;` outside any loop.
RECURSIVE JSSyntaxError(_, _, _)
JSSyntaxError(code, inLoop, inSwitch) ==
    CASE code.js = "if" ->
           \/ Len(code.branches) >= 2
           \/ (Len(code.branches) = 0 /\ code.hasOtherwise)
           \/ \E i \in 1..Len(code.branches) :
                 JSSyntaxError(code.branches[i].code, inLoop, inSwitch)
           \/ JSSyntaxError(code.otherwise, inLoop, inSwitch)
      [] code.js = "switch" ->
           \/ \E i \in 1..Len(code.branches) :
                 JSSyntaxError(code.branches[i].code, inLoop, TRUE)
           \/ JSSyntaxError(code.otherwise, inLoop, TRUE)
      [] code.js = "for" -> JSSyntaxError(code.body, TRUE, inSwitch)
      [] code.js = "dowhile" ->
           ~isFunction(code.condition) \/ JSSyntaxError(code.body, TRUE, inSwitch)
      [] code.js = "break" -> code.label # "" \/ ~(inLoop \/ inSwitch)
      [] code.js = "continue" -> ~inLoop
      [] code.js = "block" ->
           \E i \in 1..Len(code.stmts) : JSSyntaxError(code.stmts[i], inLoop, inSwitch)
      [] OTHER -> FALSE

NullNode == [kind |-> "null"]

\* nodeMap[id] = node on a JavaScript array: a negative index sets a
\* property and leaves the array alone, an index past the end extends it
addNode(ng, id, node) ==
    IF id < 0 THEN ng
    ELSE IF id < Len(ng.nodeMap) THEN [ng EXCEPT !.nodeMap[id + 1] = node]
    ELSE [ng EXCEPT !.nodeMap =
             @ \o [i \in 1..(id - Len(@)) |-> NullNode] \o <<node>>]

\* new AsyncFunction("scope", "helper", code): the emitted text registered
\* under the entry's ID, unless emitting or parsing it throws
NewJITNode(ng, entryId, code) ==
    IF EmitThrowsSeq(code) # "" THEN [ng EXCEPT !.err = EmitThrowsSeq(code)]
    ELSE IF JSSyntaxError([js |-> "block", stmts |-> code], FALSE, FALSE)
         THEN [ng EXCEPT !.err = "SyntaxError"]
    ELSE addNode(ng, entryId, [kind |-> "jit", code |-> code])

emitJITNode(ng, arena, chunk, builtIns) ==
    NewJITNode(ng, arena[chunk[1]].id,
               [i \in 1..Len(chunk) |->
                   emitJITCode(arena, arena[chunk[1]].id, chunk[i], builtIns)])

RECURSIVE emitNode(_, _, _, _)
RECURSIVE EmitEach(_, _, _, _)
RECURSIVE EmitChunks(_, _, _, _)

EmitEach(ng, arena, ns, builtIns) ==
    IF ns = <<>> THEN ng
    ELSE EmitEach(emitNode(ng, arena, Head(ns), builtIns), arena, Tail(ns), builtIns)

EmitChunks(ng, arena, chunks, builtIns) ==
    IF chunks = <<>> \/ ng.err # "" THEN ng
    ELSE EmitChunks(IF Len(Head(chunks)) = 0 THEN ng
                    ELSE IF ChunkIsJIT(arena, Head(chunks))
                         THEN emitJITNode(ng, arena, Head(chunks), builtIns)
                         ELSE emitNode(ng, arena, Head(chunks)[1], builtIns),
                    arena, Tail(chunks), builtIns)

\* the step of an If or Switch registered after its branches' steps
AddBranching(ng, id, single) == IF ng.err # "" THEN ng ELSE addNode(ng, id, single)

EmitOtherwise(ng, arena, node, builtIns) ==
    IF node.hasOtherwise THEN emitNode(ng, arena, node.otherwise, builtIns) ELSE ng

emitNode(ng, arena, n, builtIns) ==
    IF ng.err # "" THEN ng
    ELSE LET node == arena[n]
             single == [kind |-> "node", node |-> n]
         IN CASE node.type = "Normal" ->
                   IF node.statement.type = "Expression" THEN addNode(ng, node.id, single)
                   ELSE IF ~node.statement.builtIn THEN [ng EXCEPT !.err = "not impelement"]
                   ELSE IF ~BuiltInKnown(node.statement.functionName, builtIns)
                        THEN [ng EXCEPT !.err = "missing built-in function"]
                   ELSE addNode(ng, node.id, single)
              [] node.type \in {"ExternCall", "Return", "Jump", "Exit"} ->
                   addNode(ng, node.id, single)
              [] node.type \in {"If", "Switch"} ->
                   AddBranching(
                       EmitOtherwise(
                           EmitEach(ng, arena,
                                    [i \in 1..Len(node.branches) |-> node.branches[i].node],
                                    builtIns),
                           arena, node, builtIns),
                       node.id, single)
              [] node.type = "LoopInitializer" ->
                   emitNode(addNode(ng, node.id, single), arena, node.main, builtIns)
              [] node.type = "Loop" ->
                   emitNode(addNode(ng, node.id, single), arena, node.body, builtIns)
              [] node.type = "Block" ->
                   EmitChunks(ng, arena, splitArray(arena, node.nodes, << <<>> >>), builtIns)
              [] OTHER -> [ng EXCEPT !.err = "unknown statement type"]

\* nodeGenPass(program, getBuiltInFunction): the array of steps, or err;
\* Array(program.next.id).fill(null) is the array the steps are put in
nodeGenPass(flow, builtIns) ==
    emitNode([nodeMap |-> [i \in 1..flow.arena[flow.arena[flow.root].next].id |-> NullNode],
              err |-> ""],
             flow.arena, flow.root, builtIns)

Compiled(arena, program) ==
    [err |-> program.err,
     program |-> IF program.err = "" THEN program.nodeMap ELSE <<>>,
     arena |-> arena]

CompileFlow(flowRoot, builtIns) ==
    IF flowRoot.err # "" THEN [err |-> flowRoot.err, program |-> <<>>, arena |-> <<>>]
    ELSE Compiled(flowRoot.arena, nodeGenPass(flowRoot, builtIns))

\* compile(script, getBuiltInFunction): the program and the graph its steps
\* refer to, or the error thrown
compile(script, builtIns) == CompileFlow(flowAnalyzePass(script), builtIns)

(***************************************************************************)
(* Opcodes (type.ts OP) and the run-time meaning of steps.                 *)
(***************************************************************************)
OpMove(n) == [type |-> "Move", next |-> n, name |-> "", parameters |-> <<>>, value |-> Undef]
OpCall(name, parameters, n) ==
    [type |-> "Call", next |-> n, name |-> name, parameters |-> parameters, value |-> Undef]
OpReturn(v) == [type |-> "Return", next |-> 0, name |-> "", parameters |-> <<>>, value |-> v]
OpExit == [type |-> "Exit", next |-> 0, name |-> "", parameters |-> <<>>, value |-> Undef]
\* what a function that ends without a return statement gives: undefined
OpUndefined ==
    [type |-> "undefined", next |-> 0, name |-> "", parameters |-> <<>>, value |-> Undef]
\* a fused step that does not come back within the model's MaxIter
OpHang == [type |-> "hang", next |-> 0, name |-> "", parameters |-> <<>>, value |-> Undef]

\* an expression evaluated only for its effect, when present
EvalIf(e, m) == IF isFunction(e) THEN Eval(e, m).m ELSE m

\* a Value of a parameter map or of a Return on the scope: the callable's
\* result, or the literal
\* A literal of a statement is the value itself. A literal read from the
\* text of a fused step is what the text means: numbers, booleans, null and
\* undefined mean themselves, the text of a string is an undeclared
\* identifier whose evaluation throws a ReferenceError.
EvalValueOf(value, m) ==
    IF value.isFn THEN Eval(value.e, m)
    ELSE IF value.emitted /\ value.val.t = "str" /\ m.err = ""
         THEN [val |-> Undef, m |-> [m EXCEPT !.err = "ReferenceError"]]
    ELSE [val |-> value.val, m |-> m]

RECURSIVE EvalParameters(_, _)

ConsParam(key, val, rest) ==
    [params |-> <<[key |-> key, val |-> val]>> \o rest.params, m |-> rest.m]

EvalParametersRest(parameters, r) ==
    ConsParam(Head(parameters).key, r.val, EvalParameters(Tail(parameters), r.m))

\* mapValues(statement.parameters, v => isFunction(v) ? v(scope) : v)
EvalParameters(parameters, m) ==
    IF parameters = <<>> THEN [params |-> <<>>, m |-> m]
    ELSE EvalParametersRest(parameters, EvalValueOf(Head(parameters).value, m))

\* builtFunc.func(statementParameters, scope.env): the built-ins of the
\* model record their invocation; the built-in boom throws
CallBuiltIn(name, parameters, m) ==
    LET r == EvalParameters(parameters, m)
    IN IF r.m.err # "" THEN r.m
       ELSE [r.m EXCEPT !.trace = Append(@, [tag |-> name, val |-> Undef,
                                             ev |-> "builtin", params |-> r.params]),
                        !.err = IF name = "boom" THEN "Error" ELSE ""]

\* the completion of a piece of the fused code: an exception thrown while
\* it ran completes it abruptly
Completion(c, m, op, fuel) ==
    [c |-> IF m.err # "" THEN "throw" ELSE c, m |-> m, op |-> op, fuel |-> fuel]

\* the opcode type the stepper sees when the step itself fails
OpThrow(msg) == [type |-> "throw", next |-> 0, name |-> msg, parameters |-> <<>>, value |-> Undef]

RECURSIVE JSRun(_, _, _)
RECURSIVE JSSeq(_, _, _)
RECURSIVE JSIfChain(_, _, _, _)
RECURSIVE JSSwitchMatch(_, _, _, _)
RECURSIVE JSSwitchFrom(_, _, _, _)
RECURSIVE JSFor(_, _, _)
RECURSIVE JSDoWhile(_, _, _)

JSSeqRest(stmts, r) == IF r.c # "normal" THEN r ELSE JSSeq(Tail(stmts), r.m, r.fuel)

\* statements in sequence, until one completes abruptly
JSSeq(stmts, m, fuel) ==
    IF stmts = <<>> THEN Completion("normal", m, OpUndefined, fuel)
    ELSE JSSeqRest(stmts, JSRun(Head(stmts), m, fuel))

JSIfTest(code, i, r, fuel) ==
    IF Truthy(r.val) THEN JSRun(code.branches[i].code, r.m, fuel)
    ELSE JSIfChain(code, i + 1, r.m, fuel)

\* if (c1) {..} else if (c2) {..} else {..}
JSIfChain(code, i, m, fuel) ==
    IF i > Len(code.branches)
    THEN IF code.hasOtherwise THEN JSRun(code.otherwise, m, fuel)
         ELSE Completion("normal", m, OpUndefined, fuel)
    ELSE JSIfTest(code, i, Eval(code.branches[i].condition, m), fuel)

JSCaseTest(code, i, pat, r) ==
    IF StrictEq(pat, r.val) THEN [at |-> i, m |-> r.m]
    ELSE JSSwitchMatch(code, i + 1, pat, r.m)

\* the case clauses are tested in order with ===; 0 when none matches
JSSwitchMatch(code, i, pat, m) ==
    IF i > Len(code.branches) THEN [at |-> 0, m |-> m]
    ELSE JSCaseTest(code, i, pat, Eval(code.branches[i].condition, m))

\* whether control runs on from the end of one case clause into the next:
\* emitJITCode closes no clause with a break
CaseFallsThrough == TRUE

JSCaseEnd(code, i, r) ==
    IF r.c # "normal" \/ ~CaseFallsThrough THEN r
    ELSE JSSwitchFrom(code, i + 1, r.m, r.fuel)

\* the statement lists from clause i on: a clause that completes normally
\* falls through into the next one, the default clause being the last
JSSwitchFrom(code, i, m, fuel) ==
    IF i > Len(code.branches)
    THEN IF code.hasOtherwise THEN JSRun(code.otherwise, m, fuel)
         ELSE Completion("normal", m, OpUndefined, fuel)
    ELSE JSCaseEnd(code, i, JSRun(code.branches[i].code, m, fuel))

\* a break inside the switch statement ends the switch statement
JSSwitchEnd(r) == IF r.c = "break" THEN Completion("normal", r.m, OpUndefined, r.fuel) ELSE r

JSSwitchBody(code, f, fuel) ==
    JSSwitchEnd(IF f.at = 0
                THEN IF code.hasOtherwise THEN JSRun(code.otherwise, f.m, fuel)
                     ELSE Completion("normal", f.m, OpUndefined, fuel)
                ELSE JSSwitchFrom(code, f.at, f.m, fuel))

JSSwitch(code, p, fuel) == JSSwitchBody(code, JSSwitchMatch(code, 1, p.val, p.m), fuel)

\* the end of one round of a for loop's body: break leaves the loop,
\* continue and a normal end go to the iterator
JSForBody(code, b) ==
    IF b.c = "break" THEN Completion("normal", b.m, OpUndefined, b.fuel)
    ELSE IF b.c \in {"return", "hang", "throw"} THEN b
    ELSE JSFor(code, EvalIf(code.iterator, b.m), b.fuel - 1)

JSForTest(code, t, fuel) ==
    IF ~Truthy(t.val) THEN Completion("normal", t.m, OpUndefined, fuel)
    ELSE JSForBody(code, JSRun(code.body, t.m, fuel))

\* for (; cond; iter) body, after the initializer; an absent condition
\* is an empty test, which is true
JSFor(code, m, fuel) ==
    IF fuel = 0 THEN Completion("hang", m, OpHang, 0)
    ELSE JSForTest(code,
                   IF isFunction(code.condition) THEN Eval(code.condition, m)
                   ELSE [val |-> Bool(TRUE), m |-> m],
                   fuel)

JSDoWhileTest(code, t, fuel) ==
    IF Truthy(t.val) THEN JSDoWhile(code, t.m, fuel - 1)
    ELSE Completion("normal", t.m, OpUndefined, fuel)

\* the end of one round of do { body iter; }: the iterator is the last
\* statement of the block, so continue goes past it to the test
JSDoWhileBody(code, b) ==
    IF b.c = "break" THEN Completion("normal", b.m, OpUndefined, b.fuel)
    ELSE IF b.c \in {"return", "hang", "throw"} THEN b
    ELSE JSDoWhileTest(code,
                       Eval(code.condition,
                            IF b.c = "normal" THEN EvalIf(code.iterator, b.m) ELSE b.m),
                       b.fuel)

\* do { body iter; } while (cond)
JSDoWhile(code, m, fuel) ==
    IF fuel = 0 THEN Completion("hang", m, OpHang, 0)
    ELSE JSDoWhileBody(code, JSRun(code.body, m, fuel))

JSRun(code, m, fuel) ==
    CASE code.js = "expr" -> Completion("normal", Eval(code.e, m).m, OpUndefined, fuel)
      [] code.js = "builtin" ->
           Completion("normal", CallBuiltIn(code.name, code.parameters, m), OpUndefined, fuel)
      [] code.js = "return" ->
           IF code.type = "Return"
           THEN LET r == EvalValueOf(code.value, m)
                IN Completion("return", r.m, OpReturn(r.val), fuel)
           ELSE IF code.type = "Move"
                THEN Completion("return", m, OpMove(code.next), fuel)
                ELSE Completion("return", m, OpExit, fuel)
      [] code.js = "if" -> JSIfChain(code, 1, m, fuel)
      [] code.js = "switch" -> JSSwitch(code, Eval(code.pattern, m), fuel)
      [] code.js = "for" -> JSFor(code, EvalIf(code.initializer, m), fuel)
      [] code.js = "dowhile" -> JSDoWhile(code, EvalIf(code.initializer, m), fuel)
      [] code.js = "break" -> Completion("break", m, OpUndefined, fuel)
      [] code.js = "continue" -> Completion("continue", m, OpUndefined, fuel)
      [] code.js = "block" -> JSSeq(code.stmts, m, fuel)
      [] OTHER -> Completion("normal", m, OpUndefined, fuel)

StepResultQuiet(op, m) == [op |-> op, m |-> m]

\* what the step gives to next(): its opcode, or the exception thrown while
\* it ran (nothing in the step functions, next, run, call or exec catches it)
StepResult(op, m) == [op |-> IF m.err # "" THEN OpThrow(m.err) ELSE op, m |-> m]

\* the fused step: jitFunction(scope, helper)
ExecJIT(code, m) ==
    LET r == JSSeq(code, m, MaxIter)
    IN StepResult(r.op, r.m)

(***************************************************************************)
(* The standalone steps emitNode registers.                                *)
(***************************************************************************)
RECURSIVE IfMatch(_, _, _)
RECURSIVE SwitchMatch(_, _, _)

IfTest(node, i, r) ==
    IF Truthy(r.val) THEN [at |-> i, m |-> r.m] ELSE IfMatch(node, i + 1, r.m)

\* the If step: the first branch whose condition is truthy; 0 when none
IfMatch(node, i, m) ==
    IF i > Len(node.branches) THEN [at |-> 0, m |-> m]
    ELSE IfTest(node, i, Eval(node.branches[i].condition, m))

SwitchTest(node, i, p, r) ==
    IF StrictEq(p.val, r.val) THEN [at |-> i, m |-> r.m]
    ELSE SwitchMatch(node, i + 1, r.m)

SwitchCondition(node, i, p) == SwitchTest(node, i, p, Eval(node.branches[i].condition, p.m))

\* the Switch step: pattern(scope) === await branch.condition(scope), the
\* pattern evaluated again for every branch
SwitchMatch(node, i, m) ==
    IF i > Len(node.branches) THEN [at |-> 0, m |-> m]
    ELSE SwitchCondition(node, i, Eval(node.statement.pattern, m))

\* where an If or Switch step moves, given the branch that matched
BranchTarget(arena, node, at) ==
    IF at # 0 THEN arena[node.branches[at].node].id
    ELSE IF node.hasOtherwise THEN arena[node.otherwise].id
    ELSE IdOf(arena, node.next)

\* a LoopInitializer step that always moves to the loop head
LoopInitializerToHead(arena, main) == main.id

\* where the LoopInitializer step moves after the initializer
LoopInitializerTarget(arena, main) ==
    IF main.statement.skipInitialCheck THEN arena[main.body].id ELSE main.id

\* statement.condition && await statement.condition(scope)
LoopTest(arena, node, t) ==
    IF isFunction(node.statement.condition) /\ Truthy(t.val)
    THEN StepResult(OpMove(arena[node.body].id), t.m)
    ELSE StepResult(OpMove(IdOf(arena, node.next)), t.m)

LoopCondition(arena, node, m) ==
    LoopTest(arena, node,
             IF isFunction(node.statement.condition) THEN Eval(node.statement.condition, m)
             ELSE [val |-> Undef, m |-> m])

\* the Loop head step: the iterator, when present, then the condition
LoopHead(arena, node, m) == LoopCondition(arena, node, EvalIf(node.statement.iterator, m))

ExecSingle(arena, n, m) ==
    LET node == arena[n]
        statement == node.statement
    IN CASE node.type = "Normal" ->
              IF statement.type = "Expression"
              THEN StepResult(OpMove(IdOf(arena, node.next)), Eval(statement.expression, m).m)
              ELSE StepResult(OpMove(IdOf(arena, node.next)),
                              CallBuiltIn(statement.functionName, statement.parameters, m))
         [] node.type = "ExternCall" ->
              LET r == EvalParameters(statement.parameters, m)
              IN StepResult(OpCall(statement.functionName, r.params, IdOf(arena, node.next)),
                            r.m)
         [] node.type = "Return" ->
              LET r == EvalValueOf(statement.value, m)
              IN StepResult(OpReturn(r.val), r.m)
         [] node.type = "If" ->
              LET f == IfMatch(node, 1, m)
              IN StepResult(OpMove(BranchTarget(arena, node, f.at)), f.m)
         [] node.type = "Switch" ->
              LET f == SwitchMatch(node, 1, m)
              IN StepResult(OpMove(BranchTarget(arena, node, f.at)), f.m)
         [] node.type = "LoopInitializer" ->
              StepResult(OpMove(LoopInitializerTarget(arena, arena[node.main])),
                         Eval(arena[node.main].statement.initializer, m).m)
         [] node.type = "Loop" -> LoopHead(arena, node, m)
         [] node.type = "Jump" -> StepResult(OpMove(IdOf(arena, node.next)), m)
         [] node.type = "Exit" -> StepResult(OpExit, m)
         [] OTHER -> StepResult(OpUndefined, m)

\* this.program[id](scope): calling an entry that is null is a TypeError
CallStepFunction(arena, step, m) ==
    IF step.kind = "null" THEN StepResult(OpThrow("TypeError"), m)
    ELSE IF step.kind = "jit" THEN ExecJIT(step.code, m)
    ELSE ExecSingle(arena, step.node, m)

\* AnonTokyoExecutable.execNode(id, scope): `throw id` past the end of the
\* program; program[id] of a negative id is undefined, and calling it is a
\* TypeError
execNode(exe, id, m) ==
    IF id >= Len(exe.program) THEN StepResult(OpThrow("id out of range"), m)
    ELSE IF id < 0 THEN StepResult(OpThrow("TypeError"), m)
    ELSE CallStepFunction(exe.arena, exe.program[id + 1], m)

(***************************************************************************)
(* The programs the model runs: a LanguageFeature (built-in names, global  *)
(* functions) and a main script, with the arguments of the exec call.      *)
(***************************************************************************)
\* g returns at once, h exits, gh calls h and goes on, w writes its local,
\* r writes its local and calls itself args.d times, t and tb throw (from an
\* expression, from a built-in), gt and gtb call them, gn calls a global
\* function that is not registered, ggn calls gn
Globals ==
    << [name |-> "g", script |-> <<SExpr(EConst(0, "g"))>>],
       [name |-> "h",
        script |-> <<SExpr(EConst(0, "h")), SExit, SExpr(EConst(0, "h.after"))>>],
       [name |-> "gh",
        script |-> <<SCall("h", <<>>, FALSE), SExpr(EConst(0, "gh.after"))>>],
       [name |-> "w",
        script |-> <<SExpr(EGet("i", "fresh")), SExpr(ESet("i", 9, "w.set"))>>],
       [name |-> "r",
        script |-> <<SExpr(EGet("i", "fresh")), SCall("g", <<>>, FALSE),
                     SExpr(ESet("i", 9, "r.set")),
                     SIf(<<Branch(EArgPos("d", "r.test"),
                                  <<SCall("r", <<Param("d", Fn(EArgDec("d", "r.dec")))>>,
                                          FALSE)>>)>>),
                     SExpr(EGet("i", "r.mine")), SExpr(EArg("d", "r.arg"))>>],
       [name |-> "t",
        script |-> <<SExpr(EThrow("throw")), SExpr(EConst(0, "t.after"))>>],
       [name |-> "tb",
        script |-> <<SCall("g", <<>>, FALSE), SCall("boom", <<>>, TRUE),
                     SCall("g", <<>>, FALSE), SExpr(EConst(0, "tb.after"))>>],
       [name |-> "gt",
        script |-> <<SCall("t", <<>>, FALSE), SExpr(EConst(0, "gt.after"))>>],
       [name |-> "gtb",
        script |-> <<SCall("tb", <<>>, FALSE), SExpr(EConst(0, "gtb.after"))>>],
       [name |-> "gn",
        script |-> <<SCall("nowhere", <<>>, FALSE), SExpr(EConst(0, "gn.after"))>>],
       [name |-> "ggn",
        script |-> <<SCall("gn", <<>>, FALSE), SExpr(EConst(0, "ggn.after"))>>] >>

Program(kind, variant, n, main) ==
    [kind |-> kind, variant |-> variant, n |-> n, main |-> main,
     globals |-> Globals, builtIns |-> {"echo", "boom"}, args |-> <<>>]

\* The main scripts.  Mark(tag) is an expression statement that only leaves
\* its tag in the trace; g is a global function that returns at once.
Programs ==
    LET
        Mark(tag) == SExpr(EConst(0, tag))
        CallG == SCall("g", <<>>, FALSE)
        CallH == SCall("h", <<>>, FALSE)

        \* i := 0; i < n; i++
        Counting(n, label, body) ==
            SLoop(ESet("i", 0, "init"), ELt("i", n, "cond"), EInc("i", "iter"), FALSE, label, body)

        \* skipInitialCheck, the condition false when it is first evaluated
        DoWhileFalse(initializer, body) ==
            SLoop(initializer, EBool(FALSE, "cond"), EConst(0, "iter"), TRUE, "", body)

        \* break L in an inner loop, L the label of the outer loop
        InnerLoop(body) ==
            SLoop(ESet("j", 0, "init"), ELt("j", 2, "cond"), EInc("j", "iter"), FALSE, "", body)

        \* continue in a counting loop and in a skipInitialCheck loop
        DoWhileCount(initializer, body) ==
            SLoop(initializer, ELt("i", 2, "cond"), EInc("i", "iter"), TRUE, "", body)

        \* k := x; switch (k) { 0: b0; 1: b1; otherwise: ow }
        SwitchOn(hasOtherwise, b0, b1) ==
            IF hasOtherwise
            THEN SSwitchElse(EGet("k", "pat"),
                             <<Branch(EConst(0, "c0"), b0), Branch(EConst(1, "c1"), b1)>>,
                             <<Mark("ow")>>)
            ELSE SSwitch(EGet("k", "pat"),
                         <<Branch(EConst(0, "c0"), b0), Branch(EConst(1, "c1"), b1)>>)

        \* Exit in the top-level frame, in a callee, in a callee's callee
        ExitPrograms ==
            << Program("exit", "top", 0, <<Mark("a"), SExit, Mark("after")>>),
               Program("exit", "callee", 1, <<CallH, Mark("after")>>),
               Program("exit", "deep", 2, <<SCall("gh", <<>>, FALSE), Mark("after")>>),
               Program("call", "return", 1, <<Mark("a"), CallG, Mark("after"),
                                              SReturn(Lit(Num(7)))>>) >>

        \* the counting loop for N = n - 1, alone in a fused step, and stepped node
        \* by node because its body calls a global function
        CountPrograms ==
            [n \in 1..(MaxN + 1) |->
                Program("count", "fused", n - 1,
                        <<Counting(n - 1, "", <<Mark("body")>>), Mark("after")>>)]
            \o
            [n \in 1..(MaxN + 1) |->
                Program("count", "stepped", n - 1,
                        <<Counting(n - 1, "", <<Mark("body"), CallG>>), CallG, Mark("after")>>)]

        DoWhilePrograms ==
            << Program("dowhile", "init/fused", 0,
                       <<DoWhileFalse(EConst(0, "init"), <<Mark("body")>>), Mark("after")>>),
               Program("dowhile", "noinit/fused", 0,
                       <<DoWhileFalse(NoExpr, <<Mark("body")>>), Mark("after")>>),
               Program("dowhile", "init/stepped", 0,
                       <<DoWhileFalse(EConst(0, "init"), <<Mark("body"), CallG>>),
                         CallG, Mark("after")>>),
               Program("dowhile", "noinit/stepped", 0,
                       <<DoWhileFalse(NoExpr, <<Mark("body"), CallG>>), CallG, Mark("after")>>),
               Program("dowhile", "init/stepped/merged body", 0,
                       <<CallG, DoWhileFalse(EConst(0, "init"), <<Mark("body"), Mark("tail")>>),
                         CallG, Mark("after")>>),
               Program("dowhile", "noinit/stepped/merged body", 0,
                       <<CallG, DoWhileFalse(NoExpr, <<Mark("body"), Mark("tail")>>),
                         CallG, Mark("after")>>) >>

        \* an unlabelled break in the body of a counting loop: directly, inside an
        \* If branch, inside a Switch branch; fused and stepped
        BreakPrograms ==
            << Program("break", "direct/fused", 2,
                       <<Counting(2, "", <<Mark("body"), Mark("pre"), SBreak("")>>), Mark("after")>>),
               Program("break", "if/fused", 2,
                       <<Counting(2, "", <<Mark("body"),
                                           SIf(<<Branch(EEq("i", 0, "test"),
                                                        <<Mark("pre"), SBreak("")>>)>>)>>),
                         Mark("after")>>),
               Program("break", "switch/fused", 2,
                       <<Counting(2, "", <<Mark("body"),
                                           SSwitch(EGet("i", "pat"),
                                                   <<Branch(EConst(0, "case"),
                                                            <<Mark("pre"), SBreak("")>>)>>)>>),
                         Mark("after")>>),
               Program("break", "direct/stepped", 3,
                       <<Counting(3, "", <<Mark("body"), CallG, Mark("pre"), SBreak("")>>),
                         CallG, Mark("after")>>),
               Program("break", "if/stepped", 3,
                       <<Counting(3, "", <<Mark("body"), CallG,
                                           SIf(<<Branch(EEq("i", 1, "test"),
                                                        <<Mark("pre"), SBreak("")>>)>>)>>),
                         CallG, Mark("after")>>) >>

        LabelPrograms ==
            << Program("label", "fused", 2,
                       <<Counting(2, "L", <<InnerLoop(<<Mark("body"), Mark("pre"), SBreak("L")>>)>>),
                         Mark("after")>>),
               Program("label", "stepped", 3,
                       <<Counting(3, "L", <<InnerLoop(<<Mark("body"), CallG, Mark("pre"),
                                                        SBreak("L")>>)>>),
                         CallG, Mark("after")>>),
               Program("label", "undef", 2,
                       <<Counting(2, "", <<Mark("body"), SBreak("L")>>), Mark("after")>>) >>

        ContinuePrograms ==
            << Program("continue", "for/fused", 2,
                       <<Counting(2, "", <<Mark("body"), Mark("pre"), SContinue, Mark("rest")>>),
                         Mark("after")>>),
               Program("continue", "for/stepped", 3,
                       <<Counting(3, "", <<Mark("body"), CallG, Mark("pre"), SContinue,
                                           Mark("rest")>>),
                         CallG, Mark("after")>>),
               Program("continue", "dowhile/init/fused", 2,
                       <<DoWhileCount(ESet("i", 0, "init"),
                                      <<Mark("body"), Mark("pre"), SContinue, Mark("rest")>>),
                         Mark("after")>>),
               Program("continue", "dowhile/init/stepped", 2,
                       <<DoWhileCount(ESet("i", 0, "init"),
                                      <<Mark("body"), CallG, Mark("pre"), SContinue, Mark("rest")>>),
                         CallG, Mark("after")>>),
               Program("continue", "dowhile/noinit/stepped", 2,
                       <<SExpr(ESet("i", 0, "set")), CallG,
                         DoWhileCount(NoExpr, <<Mark("body"), CallG, Mark("pre"), SContinue,
                                                Mark("rest")>>),
                         CallG, Mark("after")>>) >>

        SwitchPrograms ==
            [x \in 1..3 |->
                Program("switch", "otherwise/fused", x - 1,
                        <<SExpr(ESet("k", x - 1, "set")),
                          SwitchOn(TRUE, <<Mark("b0")>>, <<Mark("b1")>>), Mark("after")>>)]
            \o
            [x \in 1..3 |->
                Program("switch", "plain/fused", x - 1,
                        <<SExpr(ESet("k", x - 1, "set")),
                          SwitchOn(FALSE, <<Mark("b0")>>, <<Mark("b1")>>), Mark("after")>>)]
            \o
            [x \in 1..3 |->
                Program("switch", "otherwise/stepped", x - 1,
                        <<SExpr(ESet("k", x - 1, "set")),
                          SwitchOn(TRUE, <<Mark("b0"), CallG>>, <<Mark("b1"), CallG>>),
                          CallG, Mark("after")>>)]
            \o
            [x \in 1..3 |->
                Program("switch", "plain/stepped", x - 1,
                        <<SExpr(ESet("k", x - 1, "set")),
                          SwitchOn(FALSE, <<Mark("b0"), CallG>>, <<Mark("b1"), CallG>>),
                          CallG, Mark("after")>>)]

        \* programs whose steps fail or never come back
        FaultPrograms ==
            << Program("fault", "no opcode", 0, <<Mark("a"), Mark("b"), CallG, Mark("after")>>),
               Program("fault", "endless", 0,
                       <<SLoop(ESet("i", 0, "init"), NoExpr, EInc("i", "iter"), FALSE, "",
                               <<Mark("body")>>),
                         Mark("after")>>),
               Program("fault", "missing global", 0,
                       <<SCall("nowhere", <<>>, FALSE), Mark("after")>>),
               Program("fault", "empty body", 0,
                       <<Counting(1, "", <<>>), Mark("after")>>),
               Program("fault", "call in merged loop", 1,
                       <<Counting(1, "", <<Mark("body"), CallG>>), Mark("after")>>),
               Program("fault", "builtin", 0,
                       <<SCall("echo", <<Param("content", Lit(Num(1)))>>, TRUE),
                         SCall("g", <<Param("x", Fn(EConst(5, "arg")))>>, FALSE),
                         SReturn(Fn(EConst(9, "ret")))>>) >>

        \* k := x; if (k = 0) b0 else if (k = 1) b1 else ow
        IfOn(two, hasOtherwise, b0, b1, ow) ==
            [type |-> "If",
             branches |-> IF two THEN <<Branch(EEq("k", 0, "c0"), b0),
                                        Branch(EEq("k", 1, "c1"), b1)>>
                          ELSE <<Branch(EEq("k", 0, "c0"), b0)>>,
             hasOtherwise |-> hasOtherwise,
             otherwise |-> IF hasOtherwise THEN ow ELSE <<>>]

        IfPrograms ==
            [x \in 1..3 |->
                Program("if", "one/fused", x - 1,
                        <<SExpr(ESet("k", x - 1, "set")),
                          IfOn(FALSE, FALSE, <<Mark("b0")>>, <<>>, <<>>), Mark("after")>>)]
            \o
            [x \in 1..3 |->
                Program("if", "one/otherwise/fused", x - 1,
                        <<SExpr(ESet("k", x - 1, "set")),
                          IfOn(FALSE, TRUE, <<Mark("b0")>>, <<>>, <<Mark("ow")>>),
                          Mark("after")>>)]
            \o
            [x \in 1..3 |->
                Program("if", "two/otherwise/fused", x - 1,
                        <<SExpr(ESet("k", x - 1, "set")),
                          IfOn(TRUE, TRUE, <<Mark("b0")>>, <<Mark("b1")>>, <<Mark("ow")>>),
                          Mark("after")>>)]
            \o
            [x \in 1..3 |->
                Program("if", "two/otherwise/stepped", x - 1,
                        <<SExpr(ESet("k", x - 1, "set")),
                          IfOn(TRUE, TRUE, <<Mark("b0"), CallG>>, <<Mark("b1"), CallG>>,
                               <<Mark("ow"), CallG>>),
                          CallG, Mark("after")>>)]
            \o
            [x \in 1..3 |->
                Program("if", "two/stepped", x - 1,
                        <<SExpr(ESet("k", x - 1, "set")),
                          IfOn(TRUE, FALSE, <<Mark("b0"), CallG>>, <<Mark("b1"), CallG>>, <<>>),
                          CallG, Mark("after")>>)]

        \* a loop without a condition, left by return
        NoCondition(skipInitialCheck, body) ==
            SLoop(ESet("i", 0, "init"), NoExpr, EInc("i", "iter"), skipInitialCheck, "", body)

        NoConditionPrograms ==
            << Program("nocond", "fused", 0,
                       <<NoCondition(FALSE, <<Mark("body"), SReturn(Lit(Num(7)))>>),
                         Mark("after")>>),
               Program("nocond", "stepped", 0,
                       <<NoCondition(FALSE, <<Mark("body"), CallG, SReturn(Lit(Num(7)))>>),
                         CallG, Mark("after")>>),
               Program("nocond", "dowhile/fused", 0,
                       <<NoCondition(TRUE, <<Mark("body"), SReturn(Lit(Num(7)))>>),
                         Mark("after")>>),
               Program("nocond", "dowhile/stepped", 0,
                       <<NoCondition(TRUE, <<Mark("body"), CallG, SReturn(Lit(Num(7)))>>),
                         CallG, Mark("after")>>) >>

        \* scripts that run to the end of their root block
        ImplicitPrograms ==
            << Program("implicit", "empty", 0, <<>>),
               Program("implicit", "one", 0, <<Mark("a")>>),
               Program("implicit", "call", 0, <<CallG>>),
               Program("implicit", "step/call", 0, <<Mark("a"), CallG>>),
               Program("implicit", "call/fused", 0, <<CallG, Mark("a"), Mark("b")>>),
               Program("implicit", "loop", 2,
                       <<Counting(2, "", <<Mark("body"), CallG>>), CallG>>) >>

        \* return v: alone in its step, and fused with its neighbours
        Returning(variant, value) ==
            << Program("return", variant \o "/standalone", 0,
                       <<CallG, SReturn(value), CallG, Mark("after")>>),
               Program("return", variant \o "/fused", 0,
                       <<Mark("a"), SReturn(value), Mark("after")>>) >>

        ReturnPrograms ==
            Returning("number", Lit(Num(7))) \o Returning("callable", Fn(EConst(9, "ret")))
            \o Returning("string", Lit(Str(1))) \o Returning("null", Lit(Null))
            \o Returning("boolean", Lit(Bool(FALSE)))

        \* echo({text: v, n: () => 5}): alone in its step, and fused
        Echo(value) ==
            SCall("echo", <<Param("text", value), Param("n", Fn(EConst(5, "arg")))>>, TRUE)

        Echoing(variant, value) ==
            << Program("builtin", variant \o "/standalone", 0,
                       <<CallG, Echo(value), CallG, Mark("after")>>),
               Program("builtin", variant \o "/fused", 0, <<Echo(value), Mark("after")>>) >>

        BuiltInPrograms ==
            Echoing("number", Lit(Num(7))) \o Echoing("callable", Fn(EConst(9, "text")))
            \o Echoing("string", Lit(Str(1))) \o Echoing("null", Lit(Null))
            \o Echoing("boolean", Lit(Bool(TRUE)))

        \* the caller writes its local, calls, and reads its local again
        FramePrograms ==
            << Program("frames", "call", 0,
                       <<SExpr(EGet("i", "fresh")), CallG, SExpr(ESet("i", 5, "set")),
                         SCall("w", <<>>, FALSE), SExpr(EGet("i", "mine"))>>),
               Program("frames", "recursive", 2,
                       <<SExpr(EGet("i", "fresh")), CallG, SExpr(ESet("i", 5, "set")),
                         SCall("r", <<Param("d", Lit(Num(2)))>>, FALSE),
                         SExpr(EGet("i", "mine"))>>) >>

        \* an expression or a built-in throws: in the top-level frame, in a
        \* callee, in a callee's callee
        ThrowPrograms ==
            << Program("throw", "expression/standalone", 1,
                       <<CallG, SExpr(EThrow("throw")), CallG, Mark("after")>>),
               Program("throw", "expression/fused", 1,
                       <<Mark("a"), SExpr(EThrow("throw")), Mark("after")>>),
               Program("throw", "condition/standalone", 1,
                       <<CallG, SIf(<<Branch(EThrow("throw"), <<Mark("b0"), CallG>>)>>),
                         CallG, Mark("after")>>),
               Program("throw", "condition/fused", 1,
                       <<Counting(2, "", <<SIf(<<Branch(EThrow("throw"), <<Mark("b0")>>)>>)>>),
                         Mark("after")>>),
               Program("throw", "parameter/standalone", 1,
                       <<SCall("g", <<Param("x", Fn(EThrow("throw")))>>, FALSE), Mark("after")>>),
               Program("throw", "parameter/fused", 1,
                       <<SCall("echo", <<Param("text", Fn(EThrow("throw")))>>, TRUE),
                         Mark("after")>>),
               Program("throw", "builtin/standalone", 1,
                       <<CallG, SCall("boom", <<>>, TRUE), CallG, Mark("after")>>),
               Program("throw", "builtin/fused", 1,
                       <<SCall("boom", <<>>, TRUE), Mark("after")>>),
               Program("throw", "expression/callee", 2,
                       <<SCall("t", <<>>, FALSE), Mark("after")>>),
               Program("throw", "builtin/callee", 2,
                       <<SCall("tb", <<>>, FALSE), Mark("after")>>),
               Program("throw", "expression/deep", 3,
                       <<SCall("gt", <<>>, FALSE), Mark("after")>>),
               Program("throw", "builtin/deep", 3,
                       <<SCall("gtb", <<>>, FALSE), Mark("after")>>) >>

        \* a call of a global function that is not registered
        NoGlobalPrograms ==
            << Program("noglobal", "top", 1,
                       <<Mark("a"), CallG, SCall("nowhere", <<>>, FALSE), CallG, Mark("after")>>),
               Program("noglobal", "callee", 2, <<SCall("gn", <<>>, FALSE), Mark("after")>>),
               Program("noglobal", "deep", 3, <<SCall("ggn", <<>>, FALSE), Mark("after")>>),
               Program("noglobal", "unreachable", 0,
                       <<Mark("a"), SReturn(Lit(Num(1))), SCall("nowhere", <<>>, FALSE),
                         Mark("after")>>) >>

        \* a built-in call of a name that is not registered
        Nope == SCall("nope", <<Param("text", Lit(Num(1)))>>, TRUE)

        NoBuiltInPrograms ==
            << Program("nobuiltin", "standalone", 0, <<CallG, Nope, CallG, Mark("after")>>),
               Program("nobuiltin", "fused", 0, <<Mark("a"), Nope, Mark("after")>>),
               Program("nobuiltin", "unreachable/standalone", 0,
                       <<CallG, SReturn(Lit(Num(1))), CallG, Nope, CallG>>),
               Program("nobuiltin", "unreachable/fused", 0,
                       <<Mark("a"), SReturn(Lit(Num(1))), Nope>>),
               Program("nobuiltin", "branch/standalone", 0,
                       <<CallG, SIf(<<Branch(EBool(FALSE, "c0"), <<Nope, CallG>>)>>),
                         CallG, Mark("after")>>),
               Program("nobuiltin", "loop/fused", 0,
                       <<Counting(0, "", <<Mark("body"), Nope>>), Mark("after")>>),
               [Program("nobuiltin", "global", 0, <<Mark("a")>>)
                   EXCEPT !.globals = Globals \o <<[name |-> "nb", script |-> <<Nope>>]>>] >>

        \* jumps without a target: outside every loop, or to a label that
        \* no enclosing loop carries
        BadJumpPrograms ==
            << Program("badjump", "break/root", 0, <<Mark("a"), SBreak(""), Mark("after")>>),
               Program("badjump", "continue/root", 0, <<Mark("a"), SContinue, Mark("after")>>),
               Program("badjump", "break/if", 0,
                       <<CallG, SIf(<<Branch(EBool(FALSE, "c0"), <<SBreak(""), CallG>>)>>),
                         CallG, Mark("after")>>),
               Program("badjump", "continue/switch", 0,
                       <<SSwitch(EConst(0, "pat"),
                                 <<Branch(EConst(1, "c0"), <<SContinue>>)>>),
                         Mark("after")>>),
               Program("badjump", "break/after loop", 0,
                       <<Counting(1, "", <<Mark("body")>>), SBreak(""), Mark("after")>>),
               Program("badjump", "continue/before loop", 0,
                       <<SContinue, Counting(1, "", <<Mark("body")>>), Mark("after")>>),
               Program("badjump", "label/root", 1, <<Mark("a"), SBreak("L")>>),
               Program("badjump", "label/undeclared", 1,
                       <<Counting(1, "M", <<Mark("body"), SBreak("L")>>), Mark("after")>>),
               Program("badjump", "label/sibling before", 1,
                       <<Counting(1, "L", <<Mark("body")>>),
                         Counting(1, "M", <<Mark("body"), SBreak("L")>>)>>),
               Program("badjump", "label/sibling after", 1,
                       <<Counting(1, "M", <<Mark("body"), SBreak("L")>>),
                         Counting(1, "L", <<Mark("body")>>)>>),
               Program("badjump", "label/inner before", 1,
                       <<Counting(1, "M", <<Counting(1, "L", <<Mark("body"), CallG>>),
                                            SBreak("L")>>)>>),
               Program("badjump", "label/inner after", 1,
                       <<Counting(1, "M", <<SBreak("L"),
                                            Counting(1, "L", <<Mark("body")>>)>>)>>),
               [Program("badjump", "global", 2, <<Mark("a")>>)
                   EXCEPT !.globals = Globals \o <<[name |-> "bj", script |-> <<SBreak("")>>]>>] >>

        \* two loops with the same label: one inside the other (n = 1), and
        \* apart from each other (n = 0)
        Labelled(label, body) ==
            SLoop(ESet("j", 0, "init"), ELt("j", 1, "cond"), EInc("j", "iter"), FALSE, label, body)

        LabelClashPrograms ==
            << Program("labels", "nested", 1,
                       <<Labelled("L", <<Labelled("L", <<Mark("body")>>)>>), Mark("after")>>),
               Program("labels", "nested/deep", 1,
                       <<Labelled("L", <<Labelled("M", <<Mark("a"), CallG,
                                                         Labelled("L", <<Mark("body")>>)>>)>>),
                         Mark("after")>>),
               Program("labels", "nested/branch", 1,
                       <<Labelled("L", <<SIf(<<Branch(EBool(TRUE, "c0"),
                                                      <<Labelled("L", <<Mark("body")>>)>>)>>)>>),
                         Mark("after")>>),
               [Program("labels", "nested/global", 1, <<Mark("a")>>)
                   EXCEPT !.globals =
                       Globals \o <<[name |-> "ll",
                                     script |-> <<Labelled("L", <<Labelled("L", <<>>)>>)>>]>>],
               Program("labels", "siblings", 0,
                       <<Labelled("L", <<Mark("body")>>), Labelled("L", <<Mark("body")>>),
                         Mark("after")>>),
               Program("labels", "siblings/stepped", 0,
                       <<Labelled("L", <<Mark("body"), CallG>>), CallG,
                         Labelled("L", <<Mark("body"), CallG>>), CallG, Mark("after")>>),
               Program("labels", "siblings/inner", 0,
                       <<Labelled("M", <<Labelled("L", <<Mark("body")>>),
                                         Labelled("L", <<Mark("body")>>)>>),
                         Mark("after")>>),
               Program("labels", "siblings/apart", 0,
                       <<Labelled("M", <<Labelled("L", <<Mark("body")>>)>>),
                         Labelled("L", <<Mark("body")>>), Mark("after")>>),
               Program("labels", "siblings/branches", 0,
                       <<SExpr(ESet("k", 0, "set")),
                         SIfElse(<<Branch(EEq("k", 0, "c0"), <<Labelled("L", <<Mark("body")>>)>>)>>,
                                 <<Labelled("L", <<Mark("body")>>)>>),
                         Mark("after")>>),
               Program("labels", "siblings/switch", 0,
                       <<SExpr(ESet("k", 0, "set")),
                         SSwitch(EGet("k", "pat"),
                                 <<Branch(EConst(0, "c0"), <<Labelled("L", <<Mark("body")>>)>>),
                                   Branch(EConst(1, "c1"), <<Labelled("L", <<Mark("body")>>)>>)>>),
                         Mark("after")>>) >>

        \* i := 0; do { body; i++ } while (i < 2), the loop having no
        \* initializer of its own
        UntilPrograms ==
            << Program("until", "fused", 2,
                       <<SExpr(ESet("i", 0, "set")), DoWhileCount(NoExpr, <<Mark("body")>>),
                         Mark("after")>>),
               Program("until", "stepped", 2,
                       <<SExpr(ESet("i", 0, "set")), CallG,
                         DoWhileCount(NoExpr, <<Mark("body"), CallG>>), CallG, Mark("after")>>),
               Program("until", "stepped/body first", 2,
                       <<SExpr(ESet("i", 0, "set")), CallG,
                         DoWhileCount(NoExpr, <<CallG, Mark("body")>>), CallG, Mark("after")>>) >>

        \* an If or a Switch with a branch or an otherwise block that has no
        \* statement
        EmptyBlockPrograms ==
            << Program("emptyblock", "if branch", 0,
                       <<CallG, IfOn(FALSE, FALSE, <<>>, <<>>, <<>>), Mark("after")>>),
               Program("emptyblock", "if otherwise", 0,
                       <<CallG, IfOn(FALSE, TRUE, <<Mark("b0")>>, <<>>, <<>>), Mark("after")>>),
               Program("emptyblock", "switch branch", 0,
                       <<CallG, SwitchOn(FALSE, <<>>, <<Mark("b1")>>), Mark("after")>>) >>
    IN ExitPrograms \o CountPrograms \o DoWhilePrograms \o BreakPrograms \o LabelPrograms
       \o ContinuePrograms \o SwitchPrograms \o FaultPrograms \o IfPrograms
       \o NoConditionPrograms \o ImplicitPrograms \o ReturnPrograms \o BuiltInPrograms
       \o FramePrograms \o ThrowPrograms \o NoGlobalPrograms \o NoBuiltInPrograms
       \o BadJumpPrograms \o LabelClashPrograms \o UntilPrograms \o EmptyBlockPrograms

(***************************************************************************)
(* The interpreter and the stepping engine (interpreter.ts).               *)
(***************************************************************************)
VARIABLES pid, exes, status, callStack, trace, result, steps, exited, afterExit, lastOp,
          execs, probe

vars == <<pid, exes, status, callStack, trace, result, steps, exited, afterExit, lastOp,
          execs, probe>>

Input == Programs[pid]

\* new AnonTokyoInterpreter(lang) then interpreter.compile(script): every
\* global function is compiled at construction, then the main script
GlobalNames(p) == {p.globals[i].name : i \in 1..Len(p.globals)}

\* the Map built from the pairs keeps the last script of a name
GlobalScript(p, name) ==
    p.globals[CHOOSE i \in 1..Len(p.globals) :
                 /\ p.globals[i].name = name
                 /\ \A j \in (i + 1)..Len(p.globals) : p.globals[j].name # name].script

CompileAll(p) ==
    [name \in GlobalNames(p) \cup {"<main>"} |->
        compile(IF name = "<main>" THEN p.main ELSE GlobalScript(p, name), p.builtIns)]

NewIteratorStale(executable, parameters) ==
    [executable |-> executable, parameters |-> parameters,
     context |-> IF callStack = <<>> THEN [x \in Vars |-> result]
                 ELSE callStack[Len(callStack)].context,
     current |-> 0, returnValue |-> Undef, pendingNext |-> -1]

\* AnonTokyoIterator: current = 0, context = {}, returnValue = undefined
NewIterator(executable, parameters) ==
    [executable |-> executable, parameters |-> parameters, context |-> EmptyLocal,
     current |-> 0, returnValue |-> Undef, pendingNext |-> -1]

\* Record<string, any> built by an ExternCall step
ArgsOf(params) ==
    [key \in {params[i].key : i \in 1..Len(params)} |->
        params[CHOOSE i \in 1..Len(params) : params[i].key = key].val]

Top == callStack[Len(callStack)]

\* no direct call of execNode was made since the last exec
NoProbe == [id |-> -3, r |-> StepResult(OpUndefined, [local |-> EmptyLocal, args |-> <<>>,
                                                      trace |-> <<>>, err |-> ""])]

\* the scope of a direct call of execNode
ProbeScope == [local |-> [EmptyLocal EXCEPT !["k"] = Num(1)], args |-> ArgsOf(Input.args),
               trace |-> <<>>, err |-> ""]

\* the scope handed to the step of the top frame
TopScope == [local |-> Top.context, args |-> Top.parameters, trace |-> trace, err |-> ""]

\* this.executable.execNode(this.current, scope) of the top frame
TopStep == execNode(exes[Top.executable], Top.current, TopScope)

\* a Call case that leaves current alone until the callee is over
CallCurrentKept(current, next) == current

\* the calling frame's current while its callee runs (next(), case Call)
CallCurrent(current, next) == next

\* what run() of a callee gives to the frame that awaits callByName:
\* the result is dropped, the caller's loop goes on with its own current
CallerCurrentAfter(callerCurrent, calleeCurrent) == callerCurrent

\* a pop that removes the oldest frame
PopFirst(stack) == Tail(stack)

\* this.callStack.pop(): the last frame pushed is removed
Pop(stack) == SubSeq(stack, 1, Len(stack) - 1)

\* run(): the value a finished frame resolves to
RunResult(frame) ==
    IF frame.current = -1 THEN frame.returnValue
    ELSE IF frame.current = -2 THEN EXIT_SIGNAL
    ELSE Undef

Init ==
    /\ pid \in 1..Len(Programs)
    /\ exes = <<>>
    /\ status = "new"
    /\ callStack = <<>>
    /\ trace = <<>>
    /\ result = Undef
    /\ steps = 0
    /\ exited = FALSE
    /\ afterExit = 0
    /\ lastOp = OpUndefined
    /\ execs = 0
    /\ probe = NoProbe

\* construction of the interpreter and compile(main)
Compile ==
    /\ status = "new"
    /\ exes' = CompileAll(Input)
    /\ status' = IF \E name \in DOMAIN exes' : exes'[name].err # ""
                 THEN "compileError" ELSE "ready"
    /\ UNCHANGED <<pid, execs, probe, callStack, trace, result, steps, exited, afterExit, lastOp>>

\* executable.exec(parameters, env): a new context, context.call(this, ..);
\* the Executable may be executed again once an exec has resolved (what is
\* recorded about an exec starts anew with it)
Exec ==
    /\ status \in {"ready", "done"}
    /\ execs < MaxExecs
    /\ execs' = execs + 1
    /\ status' = "running"
    /\ callStack' = <<NewIterator("<main>", ArgsOf(Input.args))>>
    /\ trace' = <<>>
    /\ result' = Undef
    /\ steps' = 0
    /\ exited' = FALSE
    /\ afterExit' = 0
    /\ lastOp' = OpUndefined
    /\ probe' = NoProbe
    /\ UNCHANGED <<pid, exes>>

\* executable.execNode(id, scope) called on the compiled main script with
\* an ID of the caller's choice and a scope of its own; what it gave is
\* kept in probe
CallExecNode ==
    /\ status = "ready"
    /\ \E id \in -2..(Len(exes["<main>"].program) + 1) :
          probe' = [id |-> id, r |-> execNode(exes["<main>"], id, ProbeScope)]
    /\ UNCHANGED <<pid, execs, exes, status, callStack, trace, result, steps, exited,
                   afterExit, lastOp>>

\* what every step does besides its dispatch
Stepped(r) ==
    /\ trace' = r.m.trace
    /\ steps' = steps + 1
    /\ afterExit' = IF exited THEN afterExit + 1 ELSE afterExit
    /\ lastOp' = r.op

StepKindLenient(r) ==
    CASE r.op.type \in {"Move", "Call"} -> "Move"
      [] r.op.type = "Return" -> "Return"
      [] r.op.type = "Exit" -> "Exit"
      [] r.op.type = "hang" -> "hang"
      [] OTHER -> "throw"

\* how next() ends, given the opcode the step of the top frame gave
StepKind(r) ==
    CASE r.op.type = "Move" -> "Move"
      [] r.op.type = "Call" -> IF r.op.name \in GlobalNames(Input) THEN "Call" ELSE "throw"
      [] r.op.type = "Return" -> "Return"
      [] r.op.type = "Exit" -> "Exit"
      [] r.op.type = "hang" -> "hang"
      [] OTHER -> "throw"

\* next() of the top frame: the step is run, then the opcode dispatched
NextOp(kind, r) ==
    /\ StepKind(r) = kind
    /\ Stepped(r)
    /\ callStack' =
         CASE kind = "Move" ->
                [callStack EXCEPT ![Len(callStack)] =
                    [@ EXCEPT !.context = r.m.local, !.current = r.op.next]]
           [] kind = "Call" ->
                Append([callStack EXCEPT ![Len(callStack)] =
                           [@ EXCEPT !.context = r.m.local,
                                     !.current = CallCurrent(@, r.op.next),
                                     !.pendingNext = r.op.next]],
                       NewIterator(r.op.name, ArgsOf(r.op.parameters)))
           [] kind = "Return" ->
                [callStack EXCEPT ![Len(callStack)] =
                    [@ EXCEPT !.context = r.m.local, !.current = -1,
                              !.returnValue = r.op.value]]
           [] kind = "Exit" ->
                [callStack EXCEPT ![Len(callStack)] =
                    [@ EXCEPT !.context = r.m.local, !.current = -2]]
           [] kind = "throw" ->
                [callStack EXCEPT ![Len(callStack)] =
                    [@ EXCEPT !.context = r.m.local,
                              !.current = IF r.op.type = "Call"
                                          THEN CallCurrent(@, r.op.next) ELSE @]]
           [] OTHER ->
                [callStack EXCEPT ![Len(callStack)] = [@ EXCEPT !.context = r.m.local]]

Stepping(kind) ==
    /\ status = "running"
    /\ callStack # <<>>
    /\ Top.current >= 0
    /\ steps < MaxSteps
    /\ NextOp(kind, TopStep)

\* next(), case OPType.Move
StepMove ==
    /\ Stepping("Move")
    /\ UNCHANGED <<pid, execs, probe, exes, status, result, exited>>

\* next(), case OPType.Call, the global function being registered:
\* current is set, then callByName pushes the callee's frame
StepCall ==
    /\ Stepping("Call")
    /\ UNCHANGED <<pid, execs, probe, exes, status, result, exited>>

\* next(), case OPType.Return
StepReturn ==
    /\ Stepping("Return")
    /\ UNCHANGED <<pid, execs, probe, exes, status, result, exited>>

\* next(), case OPType.Exit
StepExit ==
    /\ Stepping("Exit")
    /\ exited' = TRUE
    /\ UNCHANGED <<pid, execs, probe, exes, status, result>>

\* the step throws, gives no opcode (`const [type] = op` of undefined), or
\* names a global function that is not registered: exec is rejected, no
\* frame is popped
StepThrow ==
    /\ Stepping("throw")
    /\ status' = "error"
    /\ UNCHANGED <<pid, execs, probe, exes, result, exited>>

\* a fused step that loops for ever: the exec call never resolves
StepHang ==
    /\ Stepping("hang")
    /\ status' = "hang"
    /\ UNCHANGED <<pid, execs, probe, exes, result, exited>>

\* run() of a callee ends: call() pops the frame and the caller's
\* `await callByName` is over
CalleeDone ==
    /\ status = "running"
    /\ Len(callStack) >= 2
    /\ Top.current < 0
    /\ callStack' = [Pop(callStack)
                        EXCEPT ![Len(callStack) - 1] =
                            [@ EXCEPT !.current = CallerCurrentAfter(@, Top.current),
                                      !.pendingNext = -1]]
    /\ UNCHANGED <<pid, execs, probe, exes, status, trace, result, steps, exited, afterExit, lastOp>>

\* run() of the top-level frame ends: exec resolves
ExecDone ==
    /\ status = "running"
    /\ Len(callStack) = 1
    /\ Top.current < 0
    /\ callStack' = Pop(callStack)
    /\ result' = RunResult(Top)
    /\ status' = "done"
    /\ UNCHANGED <<pid, execs, probe, exes, trace, steps, exited, afterExit, lastOp>>

Next ==
    \/ Compile
    \/ Exec
    \/ CallExecNode
    \/ StepMove
    \/ StepCall
    \/ StepReturn
    \/ StepExit
    \/ StepThrow
    \/ StepHang
    \/ CalleeDone
    \/ ExecDone

Spec == Init /\ [][Next]_vars

(***************************************************************************)
(* Properties.  The trace holds, in order, the tag of every expression     *)
(* evaluated and every built-in called by any frame.                       *)
(***************************************************************************)
Count(tag) == Cardinality({i \in 1..Len(trace) : trace[i].tag = tag})

\* no entry with one of the tags comes after an entry tagged `tag`
NothingAfter(tag, tags) ==
    \A i \in 1..Len(trace) :
        trace[i].tag = tag => \A j \in (i + 1)..Len(trace) : trace[j].tag \notin tags

Over == status \in {"done", "error", "hang"}

\* C1: once an Exit statement has been executed at any call depth, the
\* top-level exec resolves to the exit sentinel.
C1_ExitReachesTopLevel == (status = "done" /\ exited) => result = EXIT_SIGNAL

\* C2: after a callee frame has terminated by Exit, no step of any
\* ancestor frame is executed.
C2_NoStepAfterCalleeExit == afterExit = 0

\* C3: while a callee (or a callee of the callee) is on the call stack,
\* every calling frame's PC is the n of the Call(name, params, n) its step
\* returned: it is n when the callee's frame is pushed and at every step
\* the callee takes.
C3_CallerPCIsNext ==
    \A i \in 1..(Len(callStack) - 1) : callStack[i].current = callStack[i].pendingNext

\* a callee's callee has taken its step while both callers wait at the
\* PC after their call
C3_CalleeStepped ==
    /\ Len(callStack) = 3
    /\ Top.current < 0
    /\ callStack[1].current = callStack[1].pendingNext
    /\ callStack[1].current > 0
    /\ callStack[2].current = callStack[2].pendingNext
    /\ callStack[2].current > 0

\* C5: the loop i := 0; i < N; i++ runs its body exactly N times, fused
\* and stepped node by node.
C5_BodyRunsNTimes ==
    (Input.kind = "count" /\ status = "done") => Count("body") = Input.n

\* C6: a skipInitialCheck loop whose condition is false when it is first
\* evaluated runs its body exactly once, with and without an initializer,
\* fused and stepped node by node: never more than once, and once when the
\* invocation is over, which it always comes to.
C6_BodyRunsOnce ==
    Input.kind = "dowhile" =>
        /\ Count("body") <= 1
        /\ Count("cond") <= 1
        /\ Count("init") <= 1
        /\ status \notin {"compileError", "hang"}
        /\ steps < MaxSteps
        /\ Over => Count("body") = 1

\* the stepped loop with an initializer is over: the body ran once, then
\* the condition was evaluated, once, to false
C6_RanOnceThenTested ==
    /\ Input.kind = "dowhile"
    /\ Input.variant = "init/stepped"
    /\ status = "done"
    /\ Count("body") = 1
    /\ Count("cond") = 1
    /\ Count("after") = 1

\* C7: after an unlabelled break has been executed, the innermost loop's
\* iterator, condition and body are not evaluated again.
C7_BreakEndsLoop ==
    Input.kind = "break" => NothingAfter("pre", {"iter", "cond", "body"})

\* C8: after break L has been executed in an inner loop, none of the
\* loops up to the one labelled L evaluates its initializer, iterator,
\* condition or body again.
C8_LabelledBreakEndsLoops ==
    Input.kind = "label" => NothingAfter("pre", {"init", "iter", "cond", "body"})

\* C9: after continue the rest of the body is skipped, the iterator is
\* evaluated, once, then the condition; the initializer is not evaluated
\* again.
C9_ContinueGoesToHead ==
    Input.kind = "continue" =>
        /\ Count("rest") = 0
        /\ Count("init") <= 1
        /\ \A i \in 1..Len(trace) :
              trace[i].tag = "pre" =>
                 /\ i + 1 <= Len(trace) => trace[i + 1].tag = "iter"
                 /\ i + 2 <= Len(trace) => trace[i + 2].tag = "cond"
                 /\ Over => i + 2 <= Len(trace)

\* C10: at a Switch only the body of the first branch whose condition
\* strictly equals the pattern runs, no later branch and not the otherwise
\* block after it; with no match the otherwise block runs, when present.
C10_SwitchFirstMatchOnly ==
    Input.kind = "switch" =>
        /\ Input.n = 0 => Count("b1") = 0 /\ Count("ow") = 0
        /\ Input.n = 1 => Count("b0") = 0 /\ Count("ow") = 0
        /\ Input.n = 2 => Count("b0") = 0 /\ Count("b1") = 0
        /\ status = "done" =>
              /\ Input.n = 0 => Count("b0") = 1
              /\ Input.n = 1 => Count("b1") = 1
              /\ Input.n = 2 =>
                    Count("ow") = (IF Input.main[2].hasOtherwise THEN 1 ELSE 0)

\* C11: an If evaluates its conditions in the declared order and stops at
\* the first truthy one; only that branch's body runs; when none is truthy
\* the otherwise block runs if there is one; then the statement after the If
\* runs.  This holds for a standalone If and for an If inside a fused step.
C11_IfFirstTruthyOnly ==
    Input.kind = "if" =>
        /\ status \notin {"compileError", "error", "hang"}
        /\ Input.n = 0 => Count("c1") = 0 /\ Count("b1") = 0 /\ Count("ow") = 0
        /\ Input.n = 1 => Count("b0") = 0 /\ Count("ow") = 0
        /\ Input.n = 2 => Count("b0") = 0 /\ Count("b1") = 0
        /\ status = "done" =>
              /\ Count("c0") = 1
              /\ Count("after") = 1
              /\ Input.n = 0 => Count("b0") = 1
              /\ Input.n = 1 =>
                    Count("b1") = (IF Len(Input.main[2].branches) = 2 THEN 1 ELSE 0)
              /\ Input.n >= 1 =>
                    Count("c1") = (IF Len(Input.main[2].branches) = 2 THEN 1 ELSE 0)
              /\ Input.n = 2 => Count("ow") = (IF Input.main[2].hasOtherwise THEN 1 ELSE 0)

\* C12: a loop without a condition goes from its head to its body on every
\* visit, as if the condition were always true; it ends only through a
\* break, return or exit, standalone and fused.
C12_NoConditionIsTrue ==
    Input.kind = "nocond" =>
        /\ status \notin {"compileError", "error", "hang"}
        /\ Count("after") = 0
        /\ status = "done" => Count("body") = 1 /\ result = Num(7)

\* a Return or Exit statement occurs somewhere in the statements
RECURSIVE HasReturnOrExit(_)
HasReturnOrExit(statements) ==
    \E i \in 1..Len(statements) :
        CASE statements[i].type \in {"Return", "Exit"} -> TRUE
          [] statements[i].type \in {"If", "Switch"} ->
                \/ \E b \in 1..Len(statements[i].branches) :
                      HasReturnOrExit(statements[i].branches[b].body)
                \/ HasReturnOrExit(statements[i].otherwise)
          [] statements[i].type = "Loop" -> HasReturnOrExit(statements[i].body)
          [] OTHER -> FALSE

\* C13: a program that reaches the end of its root block without executing
\* a Return or Exit statement, the empty program included, makes exec
\* resolve to undefined: not to the exit sentinel, not to an error.
C13_EndOfRootGivesUndefined ==
    /\ (status = "done" /\ ~HasReturnOrExit(Input.main)) => result = Undef
    /\ Input.kind = "implicit" =>
          /\ status \notin {"compileError", "error", "hang"}
          /\ status = "done" => lastOp = OpReturn(Undef)

C13_EmptyProgramDone ==
    Input.kind = "implicit" /\ Input.main = <<>> /\ status = "done" /\ steps = 1

\* C14: a Return with value v, standalone or fused, ends its frame: no
\* further step of the frame runs, and exec resolves to v, the callable's
\* result when v is a callable, the literal itself otherwise.
C14_ReturnGivesValue ==
    Input.kind = "return" =>
        /\ status \notin {"compileError", "error", "hang"}
        /\ Count("after") = 0
        /\ status = "done" =>
              /\ lastOp.type = "Return"
              /\ result = (IF Input.main[2].value.isFn THEN Num(Input.main[2].value.e.n)
                           ELSE Input.main[2].value.val)

\* C15: a built-in call statement invokes the built-in exactly once, with
\* the parameters in which every callable is replaced by its result and
\* every literal is passed unchanged; the fused form passes the same
\* parameters as the standalone form.
C15_BuiltInCalledOnce ==
    Input.kind = "builtin" =>
        /\ status \notin {"compileError", "error", "hang"}
        /\ Count("echo") <= 1
        /\ \A i \in 1..Len(trace) :
              trace[i].ev = "builtin" =>
                  trace[i].params =
                      << [key |-> "text",
                          val |-> IF Input.main[Len(Input.main) - 1].parameters[1].value.isFn
                                  THEN Num(9)
                                  ELSE Input.main[Len(Input.main) - 1].parameters[1].value.val],
                         [key |-> "n", val |-> Num(5)] >>
        /\ status = "done" => Count("echo") = 1 /\ Count("after") = 1

\* the values the expressions tagged `tag` gave, in the order of evaluation
ValuesOf(tag) == SelectSeq([i \in 1..Len(trace) |-> IF trace[i].tag = tag THEN <<trace[i].val>>
                                                      ELSE <<>>],
                           LAMBDA x : x # <<>>)

\* C16: every frame (the top-level exec, each call of a global function,
\* recursive calls included, each repeated exec of the same Executable)
\* starts at PC 0 with an empty local; a write to local in one frame is not
\* visible in another frame; a callee leaves its caller's local and args
\* unchanged.
C16_FramesAreFresh ==
    /\ [](Input.kind = "frames" =>
            /\ \A i \in 1..Len(trace) :
                  /\ trace[i].tag = "fresh" => trace[i].val = Undef
                  /\ trace[i].tag = "mine" => trace[i].val = Num(5)
                  /\ trace[i].tag = "r.mine" => trace[i].val = Num(9)
            /\ (status = "done" /\ Input.variant = "recursive") =>
                  ValuesOf("r.arg") = << <<Num(0)>>, <<Num(1)>>, <<Num(2)>> >>)
    /\ [][/\ \A i \in 1..Len(callStack') :
               i > Len(callStack) =>
                   callStack'[i].context = EmptyLocal /\ callStack'[i].current = 0
          /\ \A i \in 1..Len(callStack') :
               i < Len(callStack) =>
                   /\ callStack'[i].context = callStack[i].context
                   /\ callStack'[i].parameters = callStack[i].parameters
          /\ \A i \in 1..Len(callStack') :
               i = Len(callStack) => callStack'[i].parameters = callStack[i].parameters]_vars

\* the innermost recursive call has written its local, in the second exec
C16_RecursionInSecondExec ==
    /\ Input.kind = "frames" /\ Input.variant = "recursive"
    /\ execs = 2
    /\ Len(callStack) = 4
    /\ Top.context["i"] = Num(9)
    /\ callStack[1].context["i"] = Num(5)

\* C17: when an expression or a built-in throws during a step of a frame at
\* any call depth, the error leaves that frame and every ancestor frame:
\* exec fails with that error and no further step of any frame runs.
C17_ThrowEndsExec ==
    Input.kind = "throw" =>
        /\ status \notin {"compileError", "done", "hang"}
        /\ \A i \in 1..Len(trace) : trace[i].tag \in {"throw", "boom"} => i = Len(trace)
        /\ (Count("throw") + Count("boom") > 0) <=> status = "error"
        /\ status = "error" => lastOp = OpThrow("Error") /\ Len(callStack) = Input.n

C17_ThrownInDeepCallee ==
    /\ Input.kind = "throw" /\ Input.n = 3
    /\ status = "error"
    /\ Len(callStack) = 3
    /\ steps >= 3

\* C18: a call statement with builtIn = false that names a global function
\* that is not registered does not make compilation fail; when its step is
\* dispatched exec fails, and no later step of the calling frame or of an
\* ancestor frame runs.
C18_UnknownGlobalFailsAtDispatch ==
    Input.kind = "noglobal" =>
        /\ status \notin {"compileError", "hang"}
        /\ (lastOp.type = "Call" /\ lastOp.name = "nowhere") =>
                status = "error" /\ Len(callStack) = Input.n
        /\ Count("after") + Count("gn.after") + Count("ggn.after") = 0
        /\ status = "error" => lastOp = OpCall("nowhere", <<>>, lastOp.next)
        /\ status = "done" => Input.variant = "unreachable" /\ result = Num(1)

C18_DispatchedInDeepCallee ==
    /\ Input.kind = "noglobal" /\ Input.n = 3
    /\ status = "error"
    /\ lastOp.name = "nowhere"
    /\ Len(callStack) = 3

\* C19: compiling a block (the global functions compiled at construction
\* included) that contains a built-in call of a name that is not registered
\* fails at compile time, whether the call would be a standalone step or
\* part of a fused step, reachable or not; no Executable is produced.
C19_UnknownBuiltInFailsCompile ==
    Input.kind = "nobuiltin" =>
        /\ status \in {"new", "compileError"}
        /\ status = "compileError" =>
              \E name \in DOMAIN exes : exes[name].err = "missing built-in function"
        /\ callStack = <<>> /\ trace = <<>>

C19_UnreachableCallRejected ==
    /\ Input.kind = "nobuiltin" /\ Input.variant = "unreachable/fused"
    /\ status = "compileError"
    /\ exes["<main>"].err = "missing built-in function"

\* C20: compilation fails, and no executable is produced, for a program
\* with a jump that has no target: a break or continue outside every loop
\* body, or a labelled break whose label is not the label of an enclosing
\* loop (the label of a sibling loop that is closed included).
C20_UnresolvedJumpFailsCompile ==
    Input.kind = "badjump" =>
        /\ status \in {"new", "compileError"}
        /\ status = "compileError" =>
              \E name \in DOMAIN exes :
                  /\ name = (IF Input.n = 2 THEN "bj" ELSE "<main>")
                  /\ exes[name].err =
                        (IF Input.n = 1 THEN "undef label"
                         ELSE IF \E i \in 1..Len(Input.main) : Input.main[i].type = "Continue"
                              THEN "unexcepted continue"
                         ELSE IF Input.variant = "continue/switch" THEN "unexcepted continue"
                         ELSE "unexcepted break")
        /\ callStack = <<>> /\ trace = <<>>

C20_SiblingLabelRejected ==
    /\ Input.kind = "badjump" /\ Input.variant = "label/sibling before"
    /\ status = "compileError"
    /\ exes["<main>"].err = "undef label"

\* C21: a loop labelled L declared inside the body of another loop labelled
\* L is rejected at compile time as a duplicate label; two loops labelled L
\* that are not nested in one another are accepted.
C21_LabelClashOnlyWhenNested ==
    Input.kind = "labels" =>
        /\ Input.n = 1 =>
              /\ status \in {"new", "compileError"}
              /\ status = "compileError" =>
                    \E name \in DOMAIN exes : exes[name].err = "duplicate label"
        /\ Input.n = 0 => status # "compileError"
        /\ status # "new" => \A name \in DOMAIN exes :
                                exes[name].err = (IF Input.n = 1 /\ name \in {"<main>", "ll"}
                                                     /\ (name = "ll" <=> Input.variant = "nested/global")
                                                  THEN "duplicate label" ELSE "")

C21_SiblingsAccepted ==
    /\ Input.kind = "labels" /\ Input.variant = "siblings/inner"
    /\ status = "ready"
    /\ exes["<main>"].err = ""

\* the ID designates a step of the compiled script of that name
DefinedStep(name, id) ==
    /\ 0 <= id /\ id < Len(exes[name].program)
    /\ exes[name].program[id + 1].kind # "null"

\* C22: execNode(id, scope) fails with the out-of-range error, executing no
\* step and changing no scope, for every ID that does not designate a step
\* of the program; it executes the step only for the IDs of defined steps.
C22_ExecNodeOutOfRange ==
    probe # NoProbe =>
        IF DefinedStep("<main>", probe.id)
        THEN probe.r.op # OpThrow("id out of range")
        ELSE probe.r = [op |-> OpThrow("id out of range"), m |-> ProbeScope]

\* C23: in every execution of every compiled program, each Move(n) and each
\* Call(_, _, n) opcode a step returns has 0 <= n < program length and
\* program[n] is a defined step: no step targets a node that was never
\* labelled (ID -1) or a dead ID inside a fused step.
C23_TargetsAreDefinedSteps ==
    [][(steps' = steps + 1 /\ lastOp'.type \in {"Move", "Call"}) =>
           DefinedStep(Top.executable, lastOp'.next)]_vars

\* C24: every step the stepper invokes returns one of the four opcodes; a
\* fused step that finishes its last node without a return, an exit or an
\* escaping jump returns Move(k), k the ID of the last node's successor.
C24_StepsReturnOpcodes ==
    /\ steps > 0 => lastOp.type # "undefined"
    /\ (Input.kind = "fault" /\ Input.variant = "no opcode" /\ steps = 1) => lastOp = OpMove(2)

\* the non-Block node that carries the ID
NodeOfId(arena, id) == CHOOSE n \in 1..Len(arena) : arena[n].type # "Block" /\ arena[n].id = id

\* the first ID after the fused step registered under `entry`: the next
\* registered step, or past every ID when there is none
RunEnd(exe, entry) ==
    IF \E j \in (entry + 1)..(Len(exe.program) - 1) : exe.program[j + 1].kind # "null"
    THEN CHOOSE j \in (entry + 1)..(Len(exe.program) - 1) :
             /\ exe.program[j + 1].kind # "null"
             /\ \A i \in (entry + 1)..(j - 1) : exe.program[i + 1].kind = "null"
    ELSE Len(exe.arena) + 1

\* the nodes of the fused step registered under `entry` run one by one,
\* each through its standalone step, until an opcode leaves the run
RECURSIVE RunSingly(_, _, _, _, _)

RunSinglyNext(exe, entry, r, fuel) ==
    IF r.op.type # "Move" \/ r.op.next < entry \/ r.op.next >= RunEnd(exe, entry) THEN r
    ELSE IF fuel = 0 THEN StepResult(OpHang, r.m)
    ELSE RunSingly(exe, entry, r.op.next, r.m, fuel - 1)

RunSingly(exe, entry, id, m, fuel) ==
    RunSinglyNext(exe, entry, ExecSingle(exe.arena, NodeOfId(exe.arena, id), m), fuel)

SameUnlessHang(fused, singly) ==
    (fused.op.type # "hang" /\ singly.op.type # "hang") => fused = singly

\* C25: fused and node-by-node execution are equivalent: a run of mergeable
\* statements executed as one fused step gives the same sequence of
\* expression and built-in evaluations, the same final local and the same
\* opcode as its nodes executed one by one through their standalone steps.
C25_FusedEqualsNodeByNode ==
    (status = "ready" /\ probe = NoProbe) =>
        \A entry \in 0..(Len(exes["<main>"].program) - 1) :
            exes["<main>"].program[entry + 1].kind = "jit" =>
                SameUnlessHang(ExecJIT(exes["<main>"].program[entry + 1].code, ProbeScope),
                               RunSingly(exes["<main>"], entry, entry, ProbeScope, MaxSteps))

\* C26: after the body of a taken Switch branch (or the otherwise block)
\* completes without a jump, return or exit, the statement that follows the
\* Switch in its block is executed next: the frame does not end and no
\* other branch is entered.
C26_SwitchBranchThenSuccessor ==
    Input.kind = "switch" =>
        /\ status \notin {"compileError", "error", "hang"}
        /\ status = "done" => Count("after") = 1
        /\ \A i \in 1..Len(trace) :
              trace[i].tag \in {"b0", "b1", "ow"} =>
                  \A j \in (i + 1)..Len(trace) : trace[j].tag \in {"g", "after"}

\* C27: a loop with skipInitialCheck and no initializer is a do-while: the
\* body runs first, after each run of the body the loop head evaluates the
\* iterator and then the condition, the body is repeated while the
\* condition is true, and then the statement after the loop is executed.
C27_DoWhileWithoutInitializer ==
    Input.kind = "until" =>
        /\ status \notin {"compileError", "error", "hang"}
        /\ Count("body") <= 2 /\ Count("cond") <= Count("iter") /\ Count("iter") <= Count("body")
        /\ status = "done" =>
              /\ Count("body") = 2 /\ Count("iter") = 2 /\ Count("cond") = 2
              /\ Count("after") = 1

\* the node's mergable flag is what its components give
MergablePropagates(arena, node) ==
    CASE node.type = "Block" ->
            node.mergable <=> \A i \in 1..Len(node.nodes) : arena[node.nodes[i]].mergable
      [] node.type \in {"If", "Switch"} ->
            node.mergable <=>
                /\ \A i \in 1..Len(node.branches) : arena[node.branches[i].node].mergable
                /\ node.otherwise # 0 => arena[node.otherwise].mergable
      [] node.type = "Loop" -> node.mergable <=> arena[node.body].mergable
      [] node.type = "LoopInitializer" -> node.mergable => arena[node.main].mergable
      [] node.type = "ExternCall" -> ~node.mergable
      [] OTHER -> TRUE

\* C28: in every graph flow analysis produces, mergeability propagates
\* upward: a Block is mergeable iff all its nodes are, an If or Switch iff
\* all its branch blocks and its otherwise block are, a Loop iff its body
\* is, a LoopInitializer only if the loop it wraps is; so no mergeable node
\* has an ExternCall beneath it.
C28_MergeabilityPropagates ==
    status # "new" =>
        \A name \in DOMAIN exes :
            \A n \in 1..Len(exes[name].arena) :
                MergablePropagates(exes[name].arena, exes[name].arena[n])


\* the ExternCall node at position n has a standalone step of its own at its ID
OwnStep(exe, n) ==
    /\ exe.arena[n].id >= 0
    /\ exe.arena[n].id < Len(exe.program)
    /\ exe.program[exe.arena[n].id + 1] = [kind |-> "node", node |-> n]

\* C29: for every program flow analysis accepts, node generation does not
\* put an ExternCall inside a fused run: it succeeds, and each labelled
\* ExternCall node, one in the body of a loop with an initializer that has
\* mergeable statements around it included, has its own standalone step at
\* its own ID.
C29_ExternCallNeverFused ==
    status # "new" =>
        \A name \in DOMAIN exes :
            /\ exes[name].err # "unexcept jit node, extern call can't emit jit"
            /\ exes[name].err = "" =>
                   \A n \in 1..Len(exes[name].arena) :
                       (exes[name].arena[n].type = "ExternCall" /\ exes[name].arena[n].id >= 0)
                           => OwnStep(exes[name], n)


\* the nodes a node links to: nodes, branches, otherwise, main, body, next
LinksOf(node) ==
    {node.nodes[i] : i \in 1..Len(node.nodes)}
        \cup {node.branches[i].node : i \in 1..Len(node.branches)}
        \cup ({node.otherwise, node.main, node.body, node.next} \ {0})

RECURSIVE ReachableFrom(_, _)
ReachableFrom(arena, seen) ==
    LET more == UNION {LinksOf(arena[n]) : n \in seen} \ seen
    IN IF more = {} THEN seen ELSE ReachableFrom(arena, seen \cup more)

\* the root block: the block the implicit Return (position 1) was pushed on
RootOf(arena) ==
    CHOOSE n \in 1..Len(arena) :
        arena[n].type = "Block" /\ \E i \in 1..Len(arena[n].nodes) : arena[n].nodes[i] = 1

\* the non-Block nodes reachable from the root
ReachableNodes(arena) ==
    {n \in ReachableFrom(arena, {RootOf(arena)}) : arena[n].type # "Block"}

\* the IDs are pairwise distinct, are exactly 0..n-1, the implicit Return
\* (position 1) has the largest
DenseIds(arena, reachable) ==
    /\ \A n \in reachable : arena[n].id # -1
    /\ \A a, b \in reachable : a # b => arena[a].id # arena[b].id
    /\ {arena[n].id : n \in reachable} = 0..(Cardinality(reachable) - 1)
    /\ arena[1].id = Cardinality(reachable) - 1

\* C30: after the labelling walk, the non-Block nodes reachable from the
\* root through nodes, branches, otherwise, main, body and next links have
\* pairwise distinct IDs that are exactly 0..n-1, the implicit Return has
\* the largest ID, and no reachable node keeps the placeholder ID -1.
C30_ReachableNodesLabelled ==
    status # "new" =>
        \A name \in DOMAIN exes :
            exes[name].arena # <<>> =>
                DenseIds(exes[name].arena, ReachableNodes(exes[name].arena))


\* what identifies a frame: its executable, parameters and locals
SameFrame(a, b) ==
    /\ a.executable = b.executable
    /\ a.parameters = b.parameters
    /\ a.context = b.context
    /\ a.returnValue = b.returnValue

RECURSIVE NoLoop(_, _)
NoLoop(script, callable) ==
    \A i \in 1..Len(script) :
        LET statement == script[i]
        IN CASE statement.type = "Loop" -> FALSE
             [] statement.type = "Call" ->
                  statement.builtIn \/ statement.functionName \in callable
             [] statement.type \in {"If", "Switch"} ->
                  /\ \A b \in 1..Len(statement.branches) :
                         NoLoop(statement.branches[b].body, callable)
                  /\ NoLoop(statement.otherwise, callable)
             [] OTHER -> TRUE

\* no Loop statement in the main script or in what it calls, and no
\* recursion: the global functions it calls call none themselves
LoopFree(p) ==
    NoLoop(p.main, {name \in GlobalNames(p) : NoLoop(GlobalScript(p, name), {})})

\* C32: for a program without Loop statements and without recursive calls
\* of global functions, in which no expression and no built-in throws, the
\* stepper never fails on a missing step or a missing opcode: exec is not
\* rejected and does not hang.
C32_LoopFreeExecResolves ==
    (LoopFree(Input) /\ status \in {"error", "hang"}) => lastOp.type = "throw"


\* the ID is one of the fused step registered under `entry`
InRun(exe, entry, id) == entry <= id /\ id < RunEnd(exe, entry)

\* the Jump nodes fused into the step registered under `entry`
JumpsOfRun(exe, entry) ==
    {n \in 1..Len(exe.arena) :
        exe.arena[n].type = "Jump" /\ InRun(exe, entry, exe.arena[n].id)}

\* the jump's target loop is outside the run exactly when its ID is below
\* the entry's, and a target outside is a defined step
JumpClassified(name, entry, target) ==
    /\ ~InRun(exes[name], entry, target) <=> JumpLeavesJIT(target, entry)
    /\ JumpLeavesJIT(target, entry) => DefinedStep(name, target)

\* C33: in a fused run with entry ID e, a break or continue is emitted as a
\* structural jump when its target loop is part of the run and as a return
\* of Move(target ID) when it is outside: for every jump of every fused run
\* the target loop is outside the run exactly when its ID is below e, and
\* the returned target is a defined step.
C33_JumpsClassifiedByEntry ==
    status # "new" =>
        \A name \in DOMAIN exes :
            exes[name].err = "" =>
                \A entry \in 0..(Len(exes[name].program) - 1) :
                    exes[name].program[entry + 1].kind = "jit" =>
                        \A n \in JumpsOfRun(exes[name], entry) :
                            JumpClassified(name, entry,
                                           IdOf(exes[name].arena, exes[name].arena[n].next))


\* the script has a loop with an empty body, or an If or Switch with an
\* empty branch or an empty otherwise block
RECURSIVE HasEmptyBlock(_)
HasEmptyBlock(script) ==
    \E i \in 1..Len(script) :
        LET statement == script[i]
        IN CASE statement.type = "Loop" ->
                  statement.body = <<>> \/ HasEmptyBlock(statement.body)
             [] statement.type \in {"If", "Switch"} ->
                  \/ \E b \in 1..Len(statement.branches) :
                         \/ statement.branches[b].body = <<>>
                         \/ HasEmptyBlock(statement.branches[b].body)
                  \/ statement.hasOtherwise /\ statement.otherwise = <<>>
                  \/ HasEmptyBlock(statement.otherwise)
             [] OTHER -> FALSE

\* C34: a program with an empty block (a loop with an empty body, an If or
\* Switch branch or otherwise block without statements) compiles, and
\* entering the empty block is moving to its successor: the program is
\* compiled and its exec is not rejected.
C34_EmptyBlockCompiles ==
    HasEmptyBlock(Input.main) =>
        /\ status # "compileError"
        /\ status # "error"

====
